---------------------------- MODULE Spec2Model ----------------------------
(***************************************************************************)
(* A model of pi_rc (radio_control): the controller capture thread, its    *)
(* reconnection search, the event channel and the dispatch loop of main(). *)
(*                                                                         *)
(* Analog values are integers in hundredths (0.2 is 20, a duty cycle of    *)
(* 0.75 is 75); the servo interval is in milliseconds.                     *)
(***************************************************************************)
EXTENDS Integers, Sequences, FiniteSets, TLC

VARIABLES
    pc,                 \* position of each thread: main, cap (capture), search
    queue,              \* Controller.data: the SimpleQueue of ControllerData references
    cd_event,           \* Controller._controller_data.event (the one shared object)
    cd_input,           \* Controller._controller_data.controller_input
    current_input,      \* local current_input of Controller._run
    controller,         \* instance id of Controller._controller (0: None)
    controller_connected, \* Controller._controller_connected
    running,            \* Controller._running
    running_event,      \* Controller._running_event
    exit,               \* the flag captured by the lambda of _reconnect_controller
    connection_timeout, \* Controller._connection_timeout
    pgq,                \* pygame's event queue
    allowed,            \* event types pygame lets into its queue
    pgAlive,            \* pygame.init() done and pygame.quit() not yet
    devPresent,         \* a controller with the expected name is plugged in
    devInst,            \* instance id of the last such controller
    devRaw,             \* raw axis, button and hat state of that controller
    budget,             \* device events the environment may still produce
    state,              \* local state of main(): the ControllerData taken from the queue
    inFinally,          \* main() is in its finally clause
    cmds,               \* actuator commands main() issued for the current event
    seen,               \* history: what main() read of the current event
    hist,               \* history: counters and flags of what was sent so far
    motorPins,          \* the two PWM outputs of each motor
    servoState,         \* each servo: its stepping thread let run, its position
    led,                \* the light: LED._current_duty and its PWM output
    bench               \* the object exercised alone in LedSpec and the like

vars == <<pc, queue, cd_event, cd_input, current_input, controller,
          controller_connected, running, running_event, exit, connection_timeout,
          pgq, allowed, pgAlive, devPresent, devInst, devRaw, budget,
          state, inFinally, cmds, seen, hist, motorPins, servoState, led, bench>>

\* the variables main() and the threads of Controller work on
progVars == <<pc, queue, cd_event, cd_input, current_input, controller,
              controller_connected, running, running_event, exit, connection_timeout,
              pgq, allowed, pgAlive, devPresent, devInst, devRaw, budget,
              state, inFinally, cmds, seen, hist>>
actVars == <<motorPins, servoState, led, bench>>

(***************************************************************************)
(* Bounds of the model.                                                    *)
(***************************************************************************)
\* device events (attach, detach, input change) the environment produces
MaxDeviceEvents == 3

(***************************************************************************)
(* controller/speed.py, controller/xboxdefs.py                             *)
(***************************************************************************)
SpeedZero == 0
SpeedSlow == 1
SpeedMiddle == 2
SpeedHigh == 3
SpeedMax == 4

ButtonA == 0
ButtonBackIdx == 10
ButtonStartIdx == 11
ButtonRightStickIdx == 14
\* the buttons of the pad main() reads, and one it does not (A)
ButtonIdx == {ButtonA, ButtonBackIdx, ButtonStartIdx, ButtonRightStickIdx}

StickLeftXIdx == 0
StickLeftYIdx == 1
StickRightXIdx == 2
StickRightYIdx == 3
TriggerRightIdx == 4
TriggerLeftIdx == 5
AxisIdx == 0..5
XboxControllerTrigger == {TriggerLeftIdx, TriggerRightIdx}

(***************************************************************************)
(* controller/analogaxis.py: thresholds in hundredths                      *)
(***************************************************************************)
StickThresholdZero == 20
StickThresholdLow == 40
StickThresholdMiddle == 60
StickThresholdHigh == 80

TriggerThresholdZero == 20
TriggerThresholdLow == 65
TriggerThresholdMiddle == 110
TriggerThresholdHigh == 160

Abs(v) == IF v < 0 THEN -v ELSE v

is_positive(value) == value >= 0

\* the stick thresholds taken as upper-inclusive
round_stick_value_UpperInclusive(value) ==
    LET abs_value == Abs(value) IN
    IF abs_value <= StickThresholdZero THEN SpeedZero
    ELSE IF abs_value <= StickThresholdLow THEN SpeedSlow
    ELSE IF abs_value <= StickThresholdMiddle THEN SpeedMiddle
    ELSE IF abs_value <= StickThresholdHigh THEN SpeedHigh
    ELSE SpeedMax

round_stick_value(value) ==
    LET abs_value == Abs(value) IN
    IF abs_value < StickThresholdZero THEN SpeedZero
    ELSE IF abs_value < StickThresholdLow THEN SpeedSlow
    ELSE IF abs_value < StickThresholdMiddle THEN SpeedMiddle
    ELSE IF abs_value < StickThresholdHigh THEN SpeedHigh
    ELSE SpeedMax

round_trigger_value(value) ==
    IF value < TriggerThresholdZero THEN SpeedZero
    ELSE IF value < TriggerThresholdLow THEN SpeedSlow
    ELSE IF value < TriggerThresholdMiddle THEN SpeedMiddle
    ELSE IF value < TriggerThresholdHigh THEN SpeedHigh
    ELSE SpeedMax

\* `1 + value` of line 121, a sum of doubles, in hundredths rounded down.  A
\* value of the model stands for the double nearest to it; over the whole
\* range -100..100 the sum compares with the four thresholds as 100 + value
\* does, but for -80: the double of -0.8 lies below -0.8 and the sum is
\* 0.19999999999999996, below the threshold 0.2.
TriggerSum(value) == IF value = -80 THEN 19 ELSE 100 + value

\* the trigger indices taken for stick indices
convert_AllSticks(index, value) ==
    [positive |-> is_positive(value), value |-> round_stick_value(value)]

\* XboxAnalogAxisConverter.convert
convert(index, value) ==
    IF index \in XboxControllerTrigger
    THEN [positive |-> TRUE, value |-> round_trigger_value(TriggerSum(value))]
    ELSE [positive |-> is_positive(value), value |-> round_stick_value(value)]

(***************************************************************************)
(* controller/controllerdata.py                                            *)
(***************************************************************************)
\* ControllerInput() and ControllerInput.reset(): three empty lists
EmptyInput == [buttons |-> <<>>, hats |-> <<>>, axes |-> <<>>]

\* the dataclass __eq__ of ControllerInput: buttons, hats and axes pairwise
InputEq(a, b) == a.buttons = b.buttons /\ a.hats = b.hats /\ a.axes = b.axes

\* the three read loops of a poll cycle of Controller._run
BuildInput(raw) ==
    [buttons |-> raw.button,
     hats    |-> <<raw.hat>>,
     axes    |-> [i \in AxisIdx |-> convert(i, raw.axis[i])]]

\* a ControllerData(event) made for one put: never written again
Fresh(event) == [ref |-> "fresh", ev |-> event, inp |-> EmptyInput]
\* a reference to Controller._controller_data, with the value it had when put
Shared == [ref |-> "shared", ev |-> cd_event, inp |-> cd_input]
ControllerDataEmpty == [ref |-> "fresh", ev |-> "Empty", inp |-> EmptyInput]

\* what a holder of the reference d reads now
EventOf(d) == IF d.ref = "shared" THEN cd_event ELSE d.ev
InputOf(d) == IF d.ref = "shared" THEN cd_input ELSE d.inp


(***************************************************************************)
(* controller/xboxdefs.py: XboxControllerInputHelper.  Python lists are    *)
(* indexed from 0, TLA+ sequences from 1.                                  *)
(***************************************************************************)
HatX(input) == input.hats[1][1]
HatY(input) == input.hats[1][2]
ButtonBack(input) == input.buttons[ButtonBackIdx]
ButtonStart(input) == input.buttons[ButtonStartIdx]
ButtonStickRight(input) == input.buttons[ButtonRightStickIdx]
StickLeftX(input) == input.axes[StickLeftXIdx]
StickLeftY(input) == input.axes[StickLeftYIdx]
StickRightX(input) == input.axes[StickRightXIdx]
StickRightY(input) == input.axes[StickRightYIdx]
TriggerLeft(input) == input.axes[TriggerLeftIdx]
TriggerRight(input) == input.axes[TriggerRightIdx]

\* indexing an emptied list raises IndexError
Readable(input) == input.hats # <<>> /\ input.buttons # <<>> /\ input.axes # <<>>

(***************************************************************************)
(* radiocontrol.py: the commands of one InputChanged cycle.  A command is  *)
(* <<device, "stop">>, <<servo, "initial">>, <<"led", op>>,               *)
(* <<motor, "move", dutycycle, forward>> or                                *)
(* <<servo, "move", step, interval, clockwise>>.                           *)
(***************************************************************************)
SERVO_STEP_SLOW == 250
SERVO_STEP_MIDDLE == 500
SERVO_STEP_HIGH == 750
SERVO_STEP_MAX == 1000
\* SERVO_INTERVAL = 0.025 s
SERVO_INTERVAL == 25
\* 0.15 of line 281
BlendFactor == 15

Motors == {"left", "right"}
Servos == {"pan", "tilt"}

run_servo(servo, speed, clockwise) ==
    IF speed = SpeedSlow THEN <<<<servo, "move", SERVO_STEP_SLOW, SERVO_INTERVAL, clockwise>>>>
    ELSE IF speed = SpeedMiddle THEN <<<<servo, "move", SERVO_STEP_MIDDLE, SERVO_INTERVAL, clockwise>>>>
    ELSE IF speed = SpeedHigh THEN <<<<servo, "move", SERVO_STEP_HIGH, SERVO_INTERVAL, clockwise>>>>
    ELSE IF speed = SpeedMax THEN <<<<servo, "move", SERVO_STEP_MAX, SERVO_INTERVAL, clockwise>>>>
    ELSE <<>>

get_dutycycle(speed) ==
    IF speed = SpeedSlow THEN 25
    ELSE IF speed = SpeedMiddle THEN 50
    ELSE IF speed = SpeedHigh THEN 75
    ELSE IF speed = SpeedMax THEN 100
    ELSE 0

run_motor_raw(motor, dutycycle, forward) == <<<<motor, "move", dutycycle, forward>>>>

run_motor(motor, speed, forward) == run_motor_raw(motor, get_dutycycle(speed), forward)

MotorStop(motor) == <<<<motor, "stop">>>>

\* lines 178-191: LED lighting
LightCmds(input) ==
    (IF HatX(input) > 0 THEN <<<<"led", "on">>>>
     ELSE IF HatX(input) < 0 THEN <<<<"led", "off">>>>
     ELSE <<>>)
    \o
    (IF HatY(input) > 0 THEN <<<<"led", "increment_brightness">>>>
     ELSE IF HatY(input) < 0 THEN <<<<"led", "decrement_brightness">>>>
     ELSE <<>>)

\* lines 193-215: camera servos
ServoCmds(input) ==
    (IF StickRightX(input).value = 0 THEN <<<<"pan", "stop">>>>
     ELSE run_servo("pan", StickRightX(input).value, ~StickRightX(input).positive))
    \o
    (IF StickRightY(input).value = 0 THEN <<<<"tilt", "stop">>>>
     ELSE run_servo("tilt", StickRightY(input).value, StickRightY(input).positive))
    \o
    (IF ButtonStickRight(input) THEN <<<<"pan", "initial">>, <<"tilt", "initial">>>>
     ELSE <<>>)

\* lines 222-240: the two spin-turn branches, each ending in `continue`
SpinLeft(input) == TriggerLeft(input).value # 0 /\ TriggerRight(input).value = 0
SpinRight(input) == TriggerLeft(input).value = 0 /\ TriggerRight(input).value # 0

\* both motors commanded forward in a spin turn
SpinCmds_SameDirection(input) ==
    IF SpinLeft(input)
    THEN run_motor("left", TriggerLeft(input).value, TRUE)
         \o run_motor("right", TriggerLeft(input).value, TRUE)
    ELSE run_motor("left", TriggerRight(input).value, TRUE)
         \o run_motor("right", TriggerRight(input).value, TRUE)

SpinCmds(input) ==
    IF SpinLeft(input)
    THEN run_motor("left", TriggerLeft(input).value, FALSE)
         \o run_motor("right", TriggerLeft(input).value, TRUE)
    ELSE run_motor("left", TriggerRight(input).value, TRUE)
         \o run_motor("right", TriggerRight(input).value, FALSE)

\* the blended duty cycle used without the floor at 0 of lines 285-286
BlendCmds_NoFloor(input) ==
    LET speed == StickLeftY(input).value
        dutycycle == get_dutycycle(speed) - BlendFactor * StickLeftX(input).value
        forward == ~StickLeftY(input).positive
    IN  IF StickLeftX(input).positive
        THEN run_motor("left", speed, forward) \o run_motor_raw("right", dutycycle, forward)
        ELSE run_motor("right", speed, forward) \o run_motor_raw("left", dutycycle, forward)

\* lines 271-293: the else branch, both left stick axes tilted
BlendCmds(input) ==
    LET speed == StickLeftY(input).value
        raw == get_dutycycle(speed) - BlendFactor * StickLeftX(input).value
        dutycycle == IF raw < 0 THEN 0 ELSE raw
        forward == ~StickLeftY(input).positive
    IN  IF StickLeftX(input).positive
        THEN run_motor("left", speed, forward) \o run_motor_raw("right", dutycycle, forward)
        ELSE run_motor("right", speed, forward) \o run_motor_raw("left", dutycycle, forward)

\* the left stick on X only stopping the motor opposite to X's sign
GeneralDriveCmds_StopOpposite(input) ==
    LET x == StickLeftX(input)
        y == StickLeftY(input)
    IN  IF y.value = 0 /\ x.value = 0
        THEN MotorStop("left") \o MotorStop("right")
        ELSE IF y.value # 0 /\ x.value = 0
        THEN run_motor("left", y.value, ~y.positive) \o run_motor("right", y.value, ~y.positive)
        ELSE IF y.value = 0 /\ x.value # 0
        THEN (IF x.positive
              THEN MotorStop("left") \o run_motor("right", x.value, TRUE)
              ELSE MotorStop("right") \o run_motor("left", x.value, TRUE))
        ELSE BlendCmds(input)

\* lines 242-293: running motor
GeneralDriveCmds(input) ==
    LET x == StickLeftX(input)
        y == StickLeftY(input)
    IN  IF y.value = 0 /\ x.value = 0
        THEN MotorStop("left") \o MotorStop("right")
        ELSE IF y.value # 0 /\ x.value = 0
        THEN run_motor("left", y.value, ~y.positive) \o run_motor("right", y.value, ~y.positive)
        ELSE IF y.value = 0 /\ x.value # 0
        THEN (IF x.positive
              THEN MotorStop("right") \o run_motor("left", x.value, TRUE)
              ELSE MotorStop("left") \o run_motor("right", x.value, TRUE))
        ELSE BlendCmds(input)

\* lines 295-301: quit when Back and Start are pushed
ShutdownRequested(input) == ButtonBack(input) /\ ButtonStart(input)

\* lines 222-301 in the order of the code: what is commanded, and how the cycle ends
DriveCmds(input) ==
    IF SpinLeft(input) \/ SpinRight(input) THEN SpinCmds(input) ELSE GeneralDriveCmds(input)

DriveOutcome(input) ==
    IF SpinLeft(input) \/ SpinRight(input) THEN "spin"
    ELSE IF ShutdownRequested(input) THEN "break"
    ELSE "next"

\* lines 167-171: the four stops of a Disconnected event
DisconnectedCmds == <<<<"pan", "stop">>, <<"tilt", "stop">>, <<"left", "stop">>, <<"right", "stop">>>>


(***************************************************************************)
(* The controller as the environment sees it.                              *)
(***************************************************************************)
MakeRaw(lx, ly, rx, ry, tr, tl, a, back, start, rstick, hx, hy) ==
    [axis   |-> [i \in AxisIdx |->
                    IF i = StickLeftXIdx THEN lx
                    ELSE IF i = StickLeftYIdx THEN ly
                    ELSE IF i = StickRightXIdx THEN rx
                    ELSE IF i = StickRightYIdx THEN ry
                    ELSE IF i = TriggerRightIdx THEN tr
                    ELSE tl],
     button |-> [b \in ButtonIdx |->
                    IF b = ButtonA THEN a
                    ELSE IF b = ButtonBackIdx THEN back
                    ELSE IF b = ButtonStartIdx THEN start
                    ELSE rstick],
     hat    |-> <<hx, hy>>]

\* sticks centred, triggers released (a released trigger reads -1)
NeutralRaw == MakeRaw(0, 0, 0, 0, -100, -100, FALSE, FALSE, FALSE, FALSE, 0, 0)

\* one raw value in each stick bucket, on both sides
StickVals == {-90, -70, -50, -30, 0, 30, 50, 70, 90}
\* 1 + v falls in each of the five trigger buckets
TriggerVals == {-100, -50, 0, 50, 100}
HatVals == {-1, 0, 1}

\* the left stick, the triggers and the Back/Start pair, everything else at rest
DriveRaws ==
    {MakeRaw(lx, ly, 0, 0, tr, tl, FALSE, bs[1], bs[2], FALSE, 0, 0) :
        lx \in StickVals, ly \in StickVals, tr \in TriggerVals, tl \in TriggerVals,
        bs \in {<<FALSE, FALSE>>, <<TRUE, FALSE>>, <<TRUE, TRUE>>}}

\* the right stick, its button and the hat, while the left stick is pushed forward
CameraRaws ==
    {MakeRaw(0, -50, rx, ry, -100, -100, FALSE, FALSE, FALSE, rstick, hx, hy) :
        rx \in StickVals, ry \in StickVals, rstick \in BOOLEAN,
        hx \in HatVals, hy \in HatVals}

DispatchRaws == DriveRaws \cup CameraRaws

(***************************************************************************)
(* gpio/led.py: the light.  _current_duty is a Python float (an IEEE-754   *)
(* double).  A double d with 0 <= d <= 2 is kept as the integer d * 2^56,  *)
(* written in three limbs <<a, b, c>> of 19 bits: d * 2^56 = a * 2^38 +    *)
(* b * 2^19 + c.  Sums and products are computed exactly and then rounded  *)
(* to 53 significant bits, ties to even, as the hardware does.             *)
(***************************************************************************)
LimbBase == 524288

RECURSIVE Bits(_)
\* the number of binary digits of n
Bits(n) == IF n = 0 THEN 0 ELSE 1 + Bits(n \div 2)

RECURSIVE Pow2(_)
Pow2(k) == IF k = 0 THEN 1 ELSE 2 * Pow2(k - 1)

\* carries propagated from the lowest limb (the last) to the highest (the first)
RECURSIVE Normalize(_)
Normalize(limbs) ==
    IF Len(limbs) = 1 THEN limbs
    ELSE LET low == limbs[Len(limbs)]
             rest == SubSeq(limbs, 1, Len(limbs) - 1)
             carried == [rest EXCEPT ![Len(rest)] = @ + (low \div LimbBase)]
         IN  Append(Normalize(carried), low % LimbBase)

\* the binary digits of a normalized limb sequence
RECURSIVE LimbBits(_)
LimbBits(limbs) ==
    IF limbs = <<>> THEN 0
    ELSE IF Head(limbs) # 0 THEN Bits(Head(limbs)) + 19 * (Len(limbs) - 1)
    ELSE LimbBits(Tail(limbs))

\* rounding to 53 significant bits, ties to even; the unit in the last place
\* stays below the limb base, so only the lowest limb and a carry are touched
Round53(limbs) ==
    LET bits == LimbBits(limbs) IN
    IF bits <= 53 THEN limbs
    ELSE LET ulp == Pow2(bits - 53)
             low == limbs[Len(limbs)]
             rem == low % ulp
             down == low - rem
             up == (2 * rem > ulp) \/ (2 * rem = ulp /\ (down \div ulp) % 2 = 1)
         IN  Normalize([limbs EXCEPT ![Len(limbs)] = IF up THEN down + ulp ELSE down])

FloatZero == <<0, 0, 0>>
\* 1.0 = 2^18 * 2^38 / 2^56
FloatOne == <<262144, 0, 0>>

\* x < y for two normalized doubles
FloatLess(x, y) ==
    \/ x[1] < y[1]
    \/ x[1] = y[1] /\ x[2] < y[2]
    \/ x[1] = y[1] /\ x[2] = y[2] /\ x[3] < y[3]

\* x + y as the hardware computes it
FloatAdd(x, y) == Round53(Normalize(<<x[1] + y[1], x[2] + y[2], x[3] + y[3]>>))

\* x - y for y <= x: the borrow is lent to each limb before the carries are taken
FloatSub(x, y) ==
    Round53(Normalize(<<x[1] - y[1] - 1,
                        x[2] - y[2] + LimbBase - 1,
                        x[3] - y[3] + LimbBase>>))

\* int(x * k) for a whole number k: the product is rounded to a double and
\* then truncated; 2^56 is 2^18 in the limb of 2^38
FloatTimesInt(x, k) ==
    LET p == Round53(Normalize(<<0, x[1] * k, x[2] * k, x[3] * k>>))
    IN  p[1] * 2 + (p[2] \div 262144)

\* PWM_RANGE of LED.__init__
PWM_RANGE == 1000
\* BRIGHTNESS_STEP = 0.1: the double nearest to 0.1 is 0x1999999999999A * 2^-56
BRIGHTNESS_STEP == <<26214, 209715, 104858>>

\* LED.__init__: _current_duty = 1; the PWM output is not written
LedInit == [duty |-> FloatOne, out |-> 0]

\* LED.on
LedOn(l) ==
    LET duty == IF l.duty = FloatZero THEN FloatOne ELSE l.duty
    IN  [duty |-> duty, out |-> FloatTimesInt(duty, PWM_RANGE)]

\* LED.off
LedOff(l) == [l EXCEPT !.out = 0]

\* LED.increment_brightness
LedIncrement(l) ==
    LET sum == FloatAdd(l.duty, BRIGHTNESS_STEP)
        duty == IF FloatLess(FloatOne, sum) THEN FloatOne ELSE sum
    IN  [duty |-> duty, out |-> FloatTimesInt(duty, PWM_RANGE)]

\* LED.decrement_brightness
LedDecrement(l) ==
    LET duty == IF FloatLess(l.duty, BRIGHTNESS_STEP) THEN FloatZero
                ELSE FloatSub(l.duty, BRIGHTNESS_STEP)
    IN  [duty |-> duty, out |-> FloatTimesInt(duty, PWM_RANGE)]

\* LED.quit
LedQuit(l) == LedOff(l)

(***************************************************************************)
(* gpio/motordriver.py: Motor.  A motor is its two PWM outputs; a duty     *)
(* cycle is in hundredths, as in the commands of radiocontrol.py.          *)
(***************************************************************************)
\* max_dutycycle of Motor.__init__
MAX_DUTYCYCLE == 1000

\* lines 260-263 of Motor.move: int(max_dutycycle * dutycycle), capped
MotorDutycycle(dutycycle) ==
    LET dutycycle_ == (MAX_DUTYCYCLE * dutycycle) \div 100
    IN  IF dutycycle_ > MAX_DUTYCYCLE THEN MAX_DUTYCYCLE ELSE dutycycle_

\* Motor.move with the cap of lines 262-263 left out
MotorMoveWrites_NoCap(dutycycle, forward) ==
    IF forward
    THEN <<<<"bwd", 0>>, <<"fwd", (MAX_DUTYCYCLE * dutycycle) \div 100>>>>
    ELSE <<<<"fwd", 0>>, <<"bwd", (MAX_DUTYCYCLE * dutycycle) \div 100>>>>

\* Motor.move energising the selected pin before it zeroes the opposite one
MotorMoveWrites_SelectedFirst(dutycycle, forward) ==
    IF forward
    THEN <<<<"fwd", MotorDutycycle(dutycycle)>>, <<"bwd", 0>>>>
    ELSE <<<<"bwd", MotorDutycycle(dutycycle)>>, <<"fwd", 0>>>>

\* lines 271-276 of Motor.move: the two set_PWM_dutycycle calls, in order
MotorMoveWrites(dutycycle, forward) ==
    IF forward
    THEN <<<<"bwd", 0>>, <<"fwd", MotorDutycycle(dutycycle)>>>>
    ELSE <<<<"fwd", 0>>, <<"bwd", MotorDutycycle(dutycycle)>>>>

\* lines 284-285 of Motor.stop
MotorStopWrites == <<<<"fwd", 0>>, <<"bwd", 0>>>>

\* one set_PWM_dutycycle call
PinWrite(pins, w) == [pins EXCEPT ![w[1]] = w[2]]

RECURSIVE PinWrites(_, _)
PinWrites(pins, writes) ==
    IF writes = <<>> THEN pins ELSE PinWrites(PinWrite(pins, Head(writes)), Tail(writes))

\* Motor.__init__ ends with stop()
MotorInit == [fwd |-> 0, bwd |-> 0]

\* Motor.quit: stop()
MotorQuitWrites == MotorStopWrites

\* the pin writes of a command to a motor
MotorWrites(c) ==
    IF c[2] = "move" THEN MotorMoveWrites(c[3], c[4])
    ELSE IF c[2] = "stop" THEN MotorStopWrites
    ELSE MotorQuitWrites

(***************************************************************************)
(* gpio/motordriver.py: ThreadedServo, as main() leaves it.  moving is     *)
(* _running_event; pos says where _current_duty is: "neutral" (at          *)
(* _initial_duty), "away", or "unknown" after initial() was called while   *)
(* the stepping thread was let run.                                        *)
(***************************************************************************)
\* ThreadedServo.__init__ ends with initial()
ServoInit == [moving |-> FALSE, pos |-> "neutral"]

\* ThreadedServo.move: the stepping thread is let run
ServoMove(s) == [moving |-> TRUE, pos |-> IF s.pos = "unknown" THEN "unknown" ELSE "away"]

\* ThreadedServo.stop
ServoStop(s) == [s EXCEPT !.moving = FALSE]

\* ThreadedServo.initial
ServoInitial(s) == [moving |-> FALSE, pos |-> IF s.moving THEN "unknown" ELSE "neutral"]

\* ThreadedServo.quit: the stepping thread has ended when initial() is called
ServoQuit(s) == [moving |-> FALSE, pos |-> "neutral"]

\* the effect of a command to a servo
ServoCmd(s, c) ==
    IF c[2] = "move" THEN ServoMove(s)
    ELSE IF c[2] = "stop" THEN ServoStop(s)
    ELSE IF c[2] = "initial" THEN ServoInitial(s)
    ELSE ServoQuit(s)

\* the effect of a command to the light
LedCmd(l, c) ==
    IF c[2] = "on" THEN LedOn(l)
    ELSE IF c[2] = "off" THEN LedOff(l)
    ELSE IF c[2] = "increment_brightness" THEN LedIncrement(l)
    ELSE IF c[2] = "decrement_brightness" THEN LedDecrement(l)
    ELSE LedQuit(l)

\* the state of one device after the commands of a sequence that go to it
RECURSIVE MotorAfter(_, _, _)
MotorAfter(pins, dev, issued) ==
    IF issued = <<>> THEN pins
    ELSE MotorAfter(IF Head(issued)[1] = dev THEN PinWrites(pins, MotorWrites(Head(issued)))
                    ELSE pins, dev, Tail(issued))

RECURSIVE ServoAfter(_, _, _)
ServoAfter(s, dev, issued) ==
    IF issued = <<>> THEN s
    ELSE ServoAfter(IF Head(issued)[1] = dev THEN ServoCmd(s, Head(issued)) ELSE s,
                    dev, Tail(issued))

RECURSIVE LedAfter(_, _)
LedAfter(l, issued) ==
    IF issued = <<>> THEN l
    ELSE LedAfter(IF Head(issued)[1] = "led" THEN LedCmd(l, Head(issued)) ELSE l,
                  Tail(issued))

\* main() calls the devices: each command acts on its device, in order
Actuate(issued) ==
    /\ motorPins' = [m \in Motors |-> MotorAfter(motorPins[m], m, issued)]
    /\ servoState' = [s \in Servos |-> ServoAfter(servoState[s], s, issued)]
    /\ led' = LedAfter(led, issued)
    /\ bench' = bench

\* the devices after their construction at lines 114-146 of radiocontrol.py
Constructed ==
    /\ motorPins = [m \in Motors |-> MotorInit]
    /\ servoState = [s \in Servos |-> ServoInit]
    /\ led = LedInit

(***************************************************************************)
(* radiocontrol.py: main(), the dispatch loop (lines 161-301).  The local  *)
(* `state` is a reference: state.event and state.controller_input are read *)
(* from the object when the line that reads them runs.                     *)
(***************************************************************************)
NoSeen == [prev |-> "none", cur |-> "none",
           ev1 |-> "none",      \* state.event as read at line 164
           ev2 |-> "none",      \* state.event as read at line 167
           ev |-> "none",       \* state.event as read at line 173
           in1 |-> EmptyInput, in2 |-> EmptyInput, fault |-> "unread", out |-> "none"]

\* controllerdata.py lines 72 and 80-81: SimpleQueue.get() takes the oldest item
GetIndex(q) == 1

RemoveAt(q, i) == [j \in 1..(Len(q) - 1) |-> IF j < i THEN q[j] ELSE q[j + 1]]

\* line 162: state = controller.data.get()
MainGet ==
    /\ pc.main = "m_get"
    /\ queue # <<>>
    /\ state' = queue[GetIndex(queue)]
    /\ queue' = RemoveAt(queue, GetIndex(queue))
    /\ cmds' = <<>>
    /\ seen' = [NoSeen EXCEPT !.prev = seen.cur, !.cur = queue[GetIndex(queue)].ev,
                              !.out = "pending"]
    /\ pc' = [pc EXCEPT !.main = "m_event"]
    /\ UNCHANGED <<cd_event, cd_input, current_input, controller, controller_connected,
                   running, running_event, exit, connection_timeout, pgq, allowed,
                   pgAlive, devPresent, devInst, devRaw, budget, inFinally, hist>>
    /\ UNCHANGED actVars

\* lines 164-165: the first read of state.event, `break` on Quit
MainEvent ==
    /\ pc.main = "m_event"
    /\ LET ev == EventOf(state) IN
        /\ seen' = [seen EXCEPT !.ev1 = ev, !.out = IF ev = "Quit" THEN "quit" ELSE "pending"]
        /\ pc' = [pc EXCEPT !.main = IF ev = "Quit" THEN "m_finally" ELSE "m_stops"]
    /\ UNCHANGED <<queue, cd_event, cd_input, current_input, controller,
                   controller_connected, running, running_event, exit,
                   connection_timeout, pgq, allowed, pgAlive, devPresent, devInst,
                   devRaw, budget, state, inFinally, cmds, hist>>
    /\ UNCHANGED actVars

\* lines 167-171: the second read of state.event, the four stops on Disconnected
MainStops ==
    /\ pc.main = "m_stops"
    /\ LET ev == EventOf(state) IN
        /\ seen' = [seen EXCEPT !.ev2 = ev]
        /\ cmds' = IF ev = "Disconnected" THEN DisconnectedCmds ELSE <<>>
        /\ Actuate(IF ev = "Disconnected" THEN DisconnectedCmds ELSE <<>>)
        /\ pc' = [pc EXCEPT !.main = "m_tag"]
    /\ UNCHANGED <<queue, cd_event, cd_input, current_input, controller,
                   controller_connected, running, running_event, exit,
                   connection_timeout, pgq, allowed, pgAlive, devPresent, devInst,
                   devRaw, budget, state, inFinally, hist>>

\* lines 173-174: the third read of state.event, `continue` unless InputChanged
MainTag ==
    /\ pc.main = "m_tag"
    /\ LET ev == EventOf(state) IN
        /\ seen' = [seen EXCEPT !.ev = ev,
                                !.out = IF ev = "InputChanged" THEN "pending" ELSE "next"]
        /\ pc' = [pc EXCEPT !.main = IF ev = "InputChanged" THEN "m_cycle1" ELSE "m_get"]
    /\ UNCHANGED <<queue, cd_event, cd_input, current_input, controller,
                   controller_connected, running, running_event, exit,
                   connection_timeout, pgq, allowed, pgAlive, devPresent, devInst,
                   devRaw, budget, state, inFinally, cmds, hist>>
    /\ UNCHANGED actVars

\* a cycle that read the motor driver chip as down went on to the drive logic
AfterFaultRead_NoSkip(fault) == "m_cycle2"

\* lines 217-220: `continue` when the motor driver chip is down
AfterFaultRead(fault) == IF fault THEN "m_get" ELSE "m_cycle2"

\* lines 176-220: light, servos, then one read of the motor driver's state pin
MainCycle1 ==
    /\ pc.main = "m_cycle1"
    /\ \E fault \in BOOLEAN :
        LET input == InputOf(state) IN
        IF ~Readable(input)
        THEN \* IndexError, caught at line 303
             /\ cmds' = cmds
             /\ UNCHANGED actVars
             /\ seen' = [seen EXCEPT !.in1 = input, !.out = "raised"]
             /\ pc' = [pc EXCEPT !.main = "m_finally"]
        ELSE /\ cmds' = cmds \o LightCmds(input) \o ServoCmds(input)
             /\ Actuate(LightCmds(input) \o ServoCmds(input))
             /\ seen' = [seen EXCEPT !.in1 = input,
                                     !.fault = IF fault THEN "yes" ELSE "no",
                                     !.out = IF fault THEN "faulted" ELSE "pending"]
             /\ pc' = [pc EXCEPT !.main = AfterFaultRead(fault)]
    /\ UNCHANGED <<queue, cd_event, cd_input, current_input, controller,
                   controller_connected, running, running_event, exit,
                   connection_timeout, pgq, allowed, pgAlive, devPresent, devInst,
                   devRaw, budget, state, inFinally, hist>>

\* lines 222-301: spin turn, running motor, the Back and Start test
MainCycle2 ==
    /\ pc.main = "m_cycle2"
    /\ LET input == InputOf(state) IN
        IF ~Readable(input)
        THEN /\ cmds' = cmds
             /\ UNCHANGED actVars
             /\ seen' = [seen EXCEPT !.in2 = input, !.out = "raised"]
             /\ pc' = [pc EXCEPT !.main = "m_finally"]
        ELSE /\ cmds' = cmds \o DriveCmds(input)
             /\ Actuate(DriveCmds(input))
             /\ seen' = [seen EXCEPT !.in2 = input, !.out = DriveOutcome(input)]
             /\ pc' = [pc EXCEPT !.main = IF DriveOutcome(input) = "break"
                                          THEN "m_finally" ELSE "m_get"]
    /\ UNCHANGED <<queue, cd_event, cd_input, current_input, controller,
                   controller_connected, running, running_event, exit,
                   connection_timeout, pgq, allowed, pgAlive, devPresent, devInst,
                   devRaw, budget, state, inFinally, hist>>

(***************************************************************************)
(* pygame, as far as Controller uses it.  pygame.event.set_allowed(None)   *)
(* allows every event type; the event functions raise pygame.error once    *)
(* pygame.quit() has run.                                                  *)
(***************************************************************************)
EventTypes == {"ADDED", "REMOVED", "MOTION", "QUIT"}
Ev(type, inst) == [type |-> type, inst |-> inst]

\* pygame.event.set_allowed(None) followed by pygame.event.set_allowed(types)
SetAllowed(types) == EventTypes \cup types

\* a device or posted event enters the queue when its type is allowed
Post(q, e) == IF pgAlive /\ e.type \in allowed THEN Append(q, e) ELSE q

(***************************************************************************)
(* DispatchSpec: the dispatch loop on one InputChanged event.  It starts   *)
(* where a poll cycle of the capture thread has just put the event: the    *)
(* capture thread waits for the next device event and none comes.          *)
(***************************************************************************)
NoHist == [nQuit |-> 0, nConnected |-> 0, nDisconnected |-> 0, nRemoved |-> 0,
           nSearch |-> 0, nSearchCap |-> 0,
           timedOut |-> FALSE,          \* the bounded join of the current search timed out
           rcBy |-> "none",             \* the thread that started the current search
           rcEnd |-> "none",            \* how its _reconnect_controller call ended
           connAtStart |-> 0,           \* nConnected and nQuit when the search started
           quitAtStart |-> 0,
           attached |-> FALSE,          \* a matching controller was plugged in since then
           lateConnected |-> FALSE,     \* a search put Connected with its exit flag set
           staleAtDisc |-> FALSE,       \* Disconnected was put behind an older event
           lastDispatched |-> EmptyInput, \* the snapshot of the capture thread's last put
           lastPoll |-> "none",         \* the last poll cycle: "same" or "changed"
           why |-> "none",              \* how main() came to its finally clause
           ledThen |-> LedInit]         \* the light when it did

\* Controller.__init__ with the default timeout of main() (30 s)
DefaultTimeout == 30

InitDispatch ==
    /\ devRaw \in DispatchRaws
    /\ cd_event = "InputChanged"
    /\ cd_input = BuildInput(devRaw)
    /\ current_input = BuildInput(devRaw)
    /\ queue = <<[ref |-> "shared", ev |-> "InputChanged", inp |-> BuildInput(devRaw)]>>
    /\ pc = [main |-> "m_get", cap |-> "c_wait", search |-> "s_idle"]
    /\ controller = 1
    /\ controller_connected = TRUE
    /\ running = TRUE
    /\ running_event = TRUE
    /\ exit = FALSE
    /\ connection_timeout = DefaultTimeout
    /\ pgq = <<>>
    /\ allowed = SetAllowed({"MOTION", "REMOVED"})
    /\ pgAlive = TRUE
    /\ devPresent = TRUE
    /\ devInst = 1
    /\ budget = 0
    /\ state = ControllerDataEmpty
    /\ inFinally = FALSE
    /\ cmds = <<>>
    /\ seen = [NoSeen EXCEPT !.cur = "Connected"]
    /\ Constructed
    /\ bench = "none"
    /\ hist = [NoHist EXCEPT !.nConnected = 1, !.lastDispatched = BuildInput(devRaw),
                             !.lastPoll = "changed"]

NextDispatch == MainGet \/ MainEvent \/ MainStops \/ MainTag \/ MainCycle1 \/ MainCycle2

DispatchSpec == InitDispatch /\ [][NextDispatch]_vars


devVars == <<devPresent, devInst, devRaw, budget>>
mainVars == <<state, inFinally, cmds, seen>>
objVars == <<cd_event, cd_input, current_input>>
pgVars == <<pgq, allowed, pgAlive>>

\* what the user does with the pad while the program runs: nothing, the hat
\* pushed right, Back and Start pressed, both sticks and the hat pushed
SpecRaws ==
    {NeutralRaw,
     MakeRaw(0, 0, 0, 0, -100, -100, FALSE, FALSE, FALSE, FALSE, 1, 0),
     MakeRaw(0, 0, 0, 0, -100, -100, FALSE, TRUE, TRUE, FALSE, 0, 0),
     MakeRaw(0, -100, 100, 0, -100, -100, FALSE, FALSE, FALSE, FALSE, 1, 0)}

\* the controller is plugged in
EnvAttach ==
    /\ budget > 0 /\ ~devPresent
    /\ devPresent' = TRUE
    /\ devInst' = devInst + 1
    /\ pgq' = Post(pgq, Ev("ADDED", devInst + 1))
    /\ budget' = budget - 1
    /\ hist' = [hist EXCEPT !.attached = TRUE]
    /\ UNCHANGED <<pc, queue, objVars, controller, controller_connected, running,
                   running_event, exit, connection_timeout, allowed, pgAlive, devRaw,
                   mainVars>>
    /\ UNCHANGED actVars

\* the controller is unplugged, or its link is lost
EnvDetach ==
    /\ budget > 0 /\ devPresent
    /\ devPresent' = FALSE
    /\ pgq' = Post(pgq, Ev("REMOVED", devInst))
    /\ budget' = budget - 1
    /\ UNCHANGED <<pc, queue, objVars, controller, controller_connected, running,
                   running_event, exit, connection_timeout, allowed, pgAlive, devInst,
                   devRaw, mainVars, hist>>
    /\ UNCHANGED actVars

\* a stick, trigger, button or the hat is moved
EnvInput ==
    /\ budget > 0 /\ devPresent
    /\ \E raw \in SpecRaws \ {devRaw} : devRaw' = raw
    /\ pgq' = Post(pgq, Ev("MOTION", devInst))
    /\ budget' = budget - 1
    /\ UNCHANGED <<pc, queue, objVars, controller, controller_connected, running,
                   running_event, exit, connection_timeout, allowed, pgAlive,
                   devPresent, devInst, mainVars, hist>>
    /\ UNCHANGED actVars

\* a joystick with another name is plugged in (instance id 0)
EnvOtherAttach ==
    /\ budget > 0
    /\ pgq' = Post(pgq, Ev("ADDED", 0))
    /\ budget' = budget - 1
    /\ UNCHANGED <<pc, queue, objVars, controller, controller_connected, running,
                   running_event, exit, connection_timeout, allowed, pgAlive,
                   devPresent, devInst, devRaw, mainVars, hist>>
    /\ UNCHANGED actVars

(***************************************************************************)
(* controller/controller.py                                                *)
(***************************************************************************)
SearchDead == {"s_idle", "s_done", "s_crashed"}
CapDead == {"done", "crashed"}
Callers == {"main", "cap"}

\* where an exception raised in thread t ends up: the capture thread dies; in
\* main() it is caught at line 303 unless the finally clause itself raises
Raised(t) == IF t = "cap" THEN "crashed"
             ELSE IF inFinally THEN "m_crashed" ELSE "m_finally"

\* line 116: self.data.put(ControllerData(ControllerEventType.Connected))
PutConnected(q) == Append(q, Fresh("Connected"))

\* lines 150-159: exit = False, the search thread is made and started
StartSearch(t) ==
    /\ exit' = FALSE
    /\ hist' = [hist EXCEPT !.nSearch = @ + 1,
                            !.nSearchCap = IF t = "cap" THEN @ + 1 ELSE @,
                            !.timedOut = FALSE, !.rcBy = t, !.rcEnd = "pending",
                            !.connAtStart = hist.nConnected,
                            !.quitAtStart = hist.nQuit,
                            !.attached = devPresent,
                            !.nDisconnected = IF t = "cap" THEN @ + 1 ELSE @,
                            !.staleAtDisc = IF t = "cap" THEN @ \/ queue # <<>> ELSE @,
                            !.lastDispatched = IF t = "cap" THEN EmptyInput ELSE @]

\* lines 243-250 with 106-124: connect()
MainConnect ==
    /\ pc.main = "m_connect"
    /\ IF devPresent
       THEN /\ controller' = devInst
            /\ controller_connected' = TRUE
            /\ queue' = PutConnected(queue)
            /\ hist' = [hist EXCEPT !.nConnected = @ + 1]
            /\ pc' = [pc EXCEPT !.main = "m_handshake"]
            /\ exit' = exit
       ELSE /\ StartSearch("main")
            /\ pc' = [pc EXCEPT !.main = "rc_join", !.search = "s_init"]
            /\ UNCHANGED <<controller, controller_connected, queue>>
    /\ UNCHANGED <<objVars, running, running_event, connection_timeout, pgVars,
                   devVars, mainVars>>
    /\ UNCHANGED actVars

\* lines 126-131: the search thread clears pygame's queue and sets the filter
SearchInit ==
    /\ pc.search = "s_init"
    /\ IF pgAlive
       THEN /\ pgq' = <<>>
            /\ allowed' = SetAllowed({"ADDED"})
            /\ pc' = [pc EXCEPT !.search = "s_loop"]
       ELSE /\ pc' = [pc EXCEPT !.search = "s_crashed"]
            /\ UNCHANGED <<pgq, allowed>>
    /\ UNCHANGED <<queue, objVars, controller, controller_connected, running,
                   running_event, exit, connection_timeout, pgAlive, devVars,
                   mainVars, hist>>
    /\ UNCHANGED actVars

\* lines 133-135: the exit flag is read at the top of the loop, before the wait
SearchLoop ==
    /\ pc.search = "s_loop"
    /\ pc' = [pc EXCEPT !.search = IF exit THEN "s_done" ELSE "s_wait"]
    /\ UNCHANGED <<queue, objVars, controller, controller_connected, running,
                   running_event, exit, connection_timeout, pgVars, devVars,
                   mainVars, hist>>
    /\ UNCHANGED actVars

\* lines 137-148: one wakeup of the search thread, with _try_connect_controller
SearchWake ==
    /\ pc.search = "s_wait"
    /\ pgAlive
    /\ pgq # <<>>
    /\ pgq' = Tail(pgq)
    /\ IF Head(pgq).type = "ADDED" /\ devPresent
       THEN /\ controller' = devInst
            /\ controller_connected' = TRUE
            /\ queue' = PutConnected(queue)
            /\ allowed' = SetAllowed({"MOTION", "REMOVED"})
            /\ running_event' = (running_event \/ running)
            /\ hist' = [hist EXCEPT !.nConnected = @ + 1,
                                    !.lateConnected = @ \/ exit]
            /\ pc' = [pc EXCEPT !.search = "s_done"]
       ELSE /\ pc' = [pc EXCEPT !.search = "s_loop"]
            /\ UNCHANGED <<controller, controller_connected, queue, allowed,
                           running_event, hist>>
    /\ UNCHANGED <<objVars, running, exit, connection_timeout, pgAlive, devVars,
                   mainVars>>
    /\ UNCHANGED actVars

\* line 137 after pygame.quit(): pygame.error ends the search thread
SearchWaitError ==
    /\ pc.search = "s_wait"
    /\ ~pgAlive
    /\ pc' = [pc EXCEPT !.search = "s_crashed"]
    /\ UNCHANGED <<queue, objVars, controller, controller_connected, running,
                   running_event, exit, connection_timeout, pgVars, devVars,
                   mainVars, hist>>
    /\ UNCHANGED actVars

\* lines 161-163: th_connection.join(...) returns because the thread ended
RcJoinReturn(t) ==
    /\ pc[t] = "rc_join"
    /\ pc.search \in SearchDead
    /\ pc' = [pc EXCEPT ![t] = "rc_alive"]
    /\ UNCHANGED <<queue, objVars, controller, controller_connected, running,
                   running_event, exit, connection_timeout, pgVars, devVars,
                   mainVars, hist>>
    /\ UNCHANGED actVars

\* the join giving up whatever _connection_timeout is
RcJoinTimeout_ZeroToo(t) ==
    /\ pc[t] = "rc_join"
    /\ pc.search \notin SearchDead
    /\ hist' = [hist EXCEPT !.timedOut = TRUE]
    /\ pc' = [pc EXCEPT ![t] = "rc_alive"]
    /\ UNCHANGED <<queue, objVars, controller, controller_connected, running,
                   running_event, exit, connection_timeout, pgVars, devVars,
                   mainVars>>
    /\ UNCHANGED actVars

\* lines 161-163: the join gives up after _connection_timeout seconds (0: never)
RcJoinTimeout(t) ==
    /\ pc[t] = "rc_join"
    /\ connection_timeout > 0
    /\ pc.search \notin SearchDead
    /\ hist' = [hist EXCEPT !.timedOut = TRUE]
    /\ pc' = [pc EXCEPT ![t] = "rc_alive"]
    /\ UNCHANGED <<queue, objVars, controller, controller_connected, running,
                   running_event, exit, connection_timeout, pgVars, devVars,
                   mainVars>>
    /\ UNCHANGED actVars

\* lines 165-166: if th_connection.is_alive(): exit = True
RcAlive(t) ==
    /\ pc[t] = "rc_alive"
    /\ exit' = (exit \/ pc.search \notin SearchDead)
    /\ pc' = [pc EXCEPT ![t] = "rc_conn"]
    /\ UNCHANGED <<queue, objVars, controller, controller_connected, running,
                   running_event, connection_timeout, pgVars, devVars, mainVars, hist>>
    /\ UNCHANGED actVars

\* lines 168-170: quit() unless the controller is connected
RcConnected(t) ==
    /\ pc[t] = "rc_conn"
    /\ IF controller_connected
       THEN /\ pc' = [pc EXCEPT ![t] = IF t = "cap" THEN "c_gate" ELSE "m_handshake"]
            /\ hist' = [hist EXCEPT !.rcEnd = "returned"]
       ELSE /\ pc' = [pc EXCEPT ![t] = "q_empty"]
            /\ hist' = hist
    /\ UNCHANGED <<queue, objVars, controller, controller_connected, running,
                   running_event, exit, connection_timeout, pgVars, devVars, mainVars>>
    /\ UNCHANGED actVars

\* clear() left out: the caller goes on without taking anything
ClearEmpty_Skip(t, at, get, next) ==
    /\ pc[t] = at
    /\ pc' = [pc EXCEPT ![t] = next]
    /\ UNCHANGED <<queue, objVars, controller, controller_connected, running,
                   running_event, exit, connection_timeout, pgVars, devVars,
                   mainVars, hist>>
    /\ UNCHANGED actVars

\* controllerdata.py line 90: while not self._queue.empty()
ClearEmpty(t, at, get, next) ==
    /\ pc[t] = at
    /\ pc' = [pc EXCEPT ![t] = IF queue = <<>> THEN next ELSE get]
    /\ UNCHANGED <<queue, objVars, controller, controller_connected, running,
                   running_event, exit, connection_timeout, pgVars, devVars,
                   mainVars, hist>>
    /\ UNCHANGED actVars

\* controllerdata.py line 91: self._queue.get_nowait(), queue.Empty when another
\* thread took the last item after the test of line 90
ClearGet(t, at, back) ==
    /\ pc[t] = at
    /\ IF queue = <<>>
       THEN /\ pc' = [pc EXCEPT ![t] = Raised(t)]
            /\ hist' = [hist EXCEPT !.rcEnd = IF @ = "pending" /\ hist.rcBy = t /\ back = "q_empty"
                                              THEN "raised" ELSE @]
            /\ queue' = queue
       ELSE /\ pc' = [pc EXCEPT ![t] = back]
            /\ queue' = Tail(queue)
            /\ hist' = hist
    /\ UNCHANGED <<objVars, controller, controller_connected, running,
                   running_event, exit, connection_timeout, pgVars, devVars, mainVars>>
    /\ UNCHANGED actVars

\* line 271 of quit(): self.data.clear()
QuitClearEmpty(t) == ClearEmpty(t, "q_empty", "q_get", "q_run")
QuitClearGet(t) == ClearGet(t, "q_get", "q_empty")

\* lines 273-281 of quit(): only QUIT allowed, pygame's queue cleared, QUIT posted
QuitRunning(t) ==
    /\ pc[t] = "q_run"
    /\ IF ~running
       THEN /\ pc' = [pc EXCEPT ![t] = "q_put"]
            /\ UNCHANGED <<pgq, allowed, running_event, hist>>
       ELSE IF ~pgAlive
       THEN /\ pc' = [pc EXCEPT ![t] = Raised(t)]
            /\ hist' = [hist EXCEPT !.rcEnd = IF @ = "pending" /\ hist.rcBy = t
                                              THEN "raised" ELSE @]
            /\ UNCHANGED <<pgq, allowed, running_event>>
       ELSE /\ allowed' = SetAllowed({"QUIT"})
            /\ pgq' = <<Ev("QUIT", 0)>>
            /\ running_event' = TRUE
            /\ pc' = [pc EXCEPT ![t] = "q_join"]
            /\ hist' = hist
    /\ UNCHANGED <<queue, objVars, controller, controller_connected, running, exit,
                   connection_timeout, pgAlive, devVars, mainVars>>
    /\ UNCHANGED actVars

\* line 282 of quit(): self._controller_capture_thread.join(); a thread that
\* joins itself gets RuntimeError
QuitJoin(t) ==
    /\ pc[t] = "q_join"
    /\ t = "main" => pc.cap \in CapDead
    /\ pc' = [pc EXCEPT ![t] = IF t = "cap" THEN Raised(t) ELSE "q_put"]
    /\ hist' = [hist EXCEPT !.rcEnd = IF t = "cap" /\ @ = "pending" THEN "raised" ELSE @]
    /\ UNCHANGED <<queue, objVars, controller, controller_connected, running,
                   running_event, exit, connection_timeout, pgVars, devVars, mainVars>>
    /\ UNCHANGED actVars

\* quit() returned without putting an event
PutQuit_Nothing(q) == q

\* line 284: self.data.put(ControllerData(ControllerEventType.Quit))
PutQuit(q) == Append(q, Fresh("Quit"))

\* lines 284-288 of quit(): the Quit event is put, pygame.quit()
QuitPut(t) ==
    /\ pc[t] = "q_put"
    /\ queue' = PutQuit(queue)
    /\ pgAlive' = FALSE
    /\ pgq' = <<>>
    /\ hist' = [hist EXCEPT !.nQuit = @ + 1,
                            !.rcEnd = IF @ = "pending" /\ hist.rcBy = t /\ ~(t = "main" /\ inFinally)
                                      THEN "returned" ELSE @]
    /\ pc' = [pc EXCEPT ![t] = IF t = "cap" THEN "c_gate"
                                ELSE IF inFinally THEN "m_shutdown" ELSE "m_handshake"]
    /\ UNCHANGED <<objVars, controller, controller_connected, running, running_event,
                   exit, connection_timeout, allowed, devVars, mainVars>>
    /\ UNCHANGED actVars

\* line 194: self._running_event.wait()
CapGate ==
    /\ pc.cap = "c_gate"
    /\ running_event
    /\ pc' = [pc EXCEPT !.cap = "c_wait"]
    /\ UNCHANGED <<queue, objVars, controller, controller_connected, running,
                   running_event, exit, connection_timeout, pgVars, devVars,
                   mainVars, hist>>
    /\ UNCHANGED actVars

\* line 196 after pygame.quit(): pygame.error ends the capture thread
CapWaitError ==
    /\ pc.cap = "c_wait"
    /\ ~pgAlive
    /\ pc' = [pc EXCEPT !.cap = "crashed"]
    /\ UNCHANGED <<queue, objVars, controller, controller_connected, running,
                   running_event, exit, connection_timeout, pgVars, devVars,
                   mainVars, hist>>
    /\ UNCHANGED actVars

\* lines 196-199: the QUIT event ends the loop
CapQuitEvent ==
    /\ pc.cap = "c_wait" /\ pgAlive /\ pgq # <<>>
    /\ Head(pgq).type = "QUIT"
    /\ pgq' = Tail(pgq)
    /\ pc' = [pc EXCEPT !.cap = "done"]
    /\ UNCHANGED <<queue, objVars, controller, controller_connected, running,
                   running_event, exit, connection_timeout, allowed, pgAlive, devVars,
                   mainVars, hist>>
    /\ UNCHANGED actVars

\* lines 204-208: the connected instance was removed
IsRemoval(e) == e.type = "REMOVED" /\ e.inst = controller

CapRemoved ==
    /\ pc.cap = "c_wait" /\ pgAlive /\ pgq # <<>>
    /\ controller_connected
    /\ IsRemoval(Head(pgq))
    /\ pgq' = Tail(pgq)
    /\ controller_connected' = FALSE
    /\ hist' = [hist EXCEPT !.nRemoved = @ + 1]
    /\ pc' = [pc EXCEPT !.cap = "c_clr_empty"]
    /\ UNCHANGED <<queue, objVars, controller, running, running_event, exit,
                   connection_timeout, allowed, pgAlive, devVars, mainVars>>
    /\ UNCHANGED actVars

\* line 209: self.data.clear()
CapClearEmpty == ClearEmpty("cap", "c_clr_empty", "c_clr_get", "c_disc")
CapClearGet == ClearGet("cap", "c_clr_get", "c_clr_empty")

\* lines 210-216: the Disconnected event is written into the shared object and
\* put, the run gate is closed, _reconnect_controller starts the search
CapDisconnected ==
    /\ pc.cap = "c_disc"
    /\ cd_event' = "Disconnected"
    /\ cd_input' = EmptyInput
    /\ current_input' = EmptyInput
    /\ queue' = Append(queue, [ref |-> "shared", ev |-> "Disconnected", inp |-> EmptyInput])
    /\ running_event' = FALSE
    /\ StartSearch("cap")
    /\ pc' = [pc EXCEPT !.cap = "rc_join", !.search = "s_init"]
    /\ UNCHANGED <<controller, controller_connected, running, connection_timeout,
                   pgVars, devVars, mainVars>>
    /\ UNCHANGED actVars

\* the comparison of line 233 looked at the buttons and axes only
InputEq_NoHats(a, b) == a.buttons = b.buttons /\ a.axes = b.axes

\* line 233: self._controller_data.controller_input == current_input
Unchanged(last, current) == InputEq(last, current)

\* lines 201-202 and 219-236: an event that is neither QUIT nor the removal of
\* the connected instance is dropped while the controller is not connected, and
\* starts a poll cycle otherwise (here up to the assignment of the event tag)
CapPoll ==
    /\ pc.cap = "c_wait" /\ pgAlive /\ pgq # <<>>
    /\ Head(pgq).type # "QUIT"
    /\ ~(controller_connected /\ IsRemoval(Head(pgq)))
    /\ pgq' = Tail(pgq)
    /\ IF ~controller_connected
       THEN /\ pc' = [pc EXCEPT !.cap = "c_gate"]
            /\ UNCHANGED <<current_input, cd_event, hist>>
       ELSE /\ current_input' = BuildInput(devRaw)
            /\ IF Unchanged(cd_input, BuildInput(devRaw))
               THEN /\ cd_event' = cd_event
                    /\ hist' = [hist EXCEPT !.lastPoll = "same"]
                    /\ pc' = [pc EXCEPT !.cap = "c_gate"]
               ELSE /\ cd_event' = "InputChanged"
                    /\ hist' = [hist EXCEPT !.lastPoll = "changed"]
                    /\ pc' = [pc EXCEPT !.cap = "c_copy"]
    /\ UNCHANGED <<queue, cd_input, controller, controller_connected, running,
                   running_event, exit, connection_timeout, allowed, pgAlive, devVars,
                   mainVars>>
    /\ UNCHANGED actVars

\* lines 237-241: the snapshot is copied into the shared object, which is put
CapCopyPut ==
    /\ pc.cap = "c_copy"
    /\ cd_input' = current_input
    /\ queue' = Append(queue, [ref |-> "shared", ev |-> cd_event, inp |-> current_input])
    /\ hist' = [hist EXCEPT !.lastDispatched = current_input]
    /\ pc' = [pc EXCEPT !.cap = "c_gate"]
    /\ UNCHANGED <<cd_event, current_input, controller, controller_connected, running,
                   running_event, exit, connection_timeout, pgVars, devVars, mainVars>>
    /\ UNCHANGED actVars

(***************************************************************************)
(* radiocontrol.py: main() around the dispatch loop                        *)
(***************************************************************************)
\* the handshake going on to run() on a Quit event as on a Connected one
MainHandshake_RunOnQuit ==
    /\ pc.main = "m_handshake"
    /\ queue # <<>>
    /\ queue' = RemoveAt(queue, GetIndex(queue))
    /\ state' = queue[GetIndex(queue)]
    /\ pc' = [pc EXCEPT !.main =
                IF EventOf(queue[GetIndex(queue)]) \in {"Connected", "Quit"} THEN "m_run"
                ELSE "m_handshake"]
    /\ UNCHANGED <<objVars, controller, controller_connected, running, running_event,
                   exit, connection_timeout, pgVars, devVars, inFinally, cmds, seen, hist>>
    /\ UNCHANGED actVars

\* lines 148-156: wait for the controller to be connected
MainHandshake ==
    /\ pc.main = "m_handshake"
    /\ queue # <<>>
    /\ queue' = RemoveAt(queue, GetIndex(queue))
    /\ state' = queue[GetIndex(queue)]
    /\ pc' = [pc EXCEPT !.main =
                IF EventOf(queue[GetIndex(queue)]) = "Connected" THEN "m_run"
                ELSE IF EventOf(queue[GetIndex(queue)]) = "Quit" THEN "m_finally"
                ELSE "m_handshake"]
    /\ UNCHANGED <<objVars, controller, controller_connected, running, running_event,
                   exit, connection_timeout, pgVars, devVars, inFinally, cmds, seen, hist>>
    /\ UNCHANGED actVars

\* line 158 with controller.py lines 252-263: run()
MainRun ==
    /\ pc.main = "m_run"
    /\ running' = TRUE
    /\ running_event' = TRUE
    /\ pc' = [pc EXCEPT !.main = "m_get", !.cap = "c_gate"]
    /\ UNCHANGED <<queue, objVars, controller, controller_connected, exit,
                   connection_timeout, pgVars, devVars, mainVars, hist>>
    /\ UNCHANGED actVars

\* lines 303-307: the finally clause calls controller.quit()
MainFinally ==
    /\ pc.main = "m_finally"
    /\ inFinally' = TRUE
    /\ pc' = [pc EXCEPT !.main = "q_empty"]
    /\ hist' = [hist EXCEPT !.why = seen.out, !.ledThen = led]
    /\ UNCHANGED <<queue, objVars, controller, controller_connected, running,
                   running_event, exit, connection_timeout, pgVars, devVars, state,
                   cmds, seen>>
    /\ UNCHANGED actVars

\* lines 308-312: quit() of the servos, the motors and the LED
ShutdownCmds == <<<<"pan", "quit">>, <<"tilt", "quit">>, <<"left", "quit">>,
                  <<"right", "quit">>, <<"led", "quit">>>>

MainShutdown ==
    /\ pc.main = "m_shutdown"
    /\ cmds' = ShutdownCmds
    /\ Actuate(ShutdownCmds)
    /\ pc' = [pc EXCEPT !.main = "m_done"]
    /\ UNCHANGED <<queue, objVars, controller, controller_connected, running,
                   running_event, exit, connection_timeout, pgVars, devVars, state,
                   inFinally, seen, hist>>

(***************************************************************************)
(* Spec: main(), the capture thread, the search thread and the controller. *)
(***************************************************************************)
Init ==
    /\ pc = [main |-> "m_connect", cap |-> "idle", search |-> "s_idle"]
    /\ queue = <<>>
    /\ cd_event = "Empty"
    /\ cd_input = EmptyInput
    /\ current_input = EmptyInput
    /\ controller = 0
    /\ controller_connected = FALSE
    /\ running = FALSE
    /\ running_event = FALSE
    /\ exit = FALSE
    /\ connection_timeout \in {0, DefaultTimeout}
    /\ devPresent \in BOOLEAN
    /\ devInst = IF devPresent THEN 1 ELSE 0
    /\ devRaw = NeutralRaw
    /\ pgq = IF devPresent THEN <<Ev("ADDED", 1)>> ELSE <<>>
    /\ allowed = SetAllowed({"MOTION", "REMOVED"})
    /\ pgAlive = TRUE
    /\ budget = MaxDeviceEvents
    /\ state = ControllerDataEmpty
    /\ inFinally = FALSE
    /\ cmds = <<>>
    /\ seen = NoSeen
    /\ hist = NoHist
    /\ Constructed
    /\ bench = "none"

Next ==
    \/ EnvAttach \/ EnvDetach \/ EnvInput \/ EnvOtherAttach
    \/ MainConnect \/ MainHandshake \/ MainRun
    \/ MainGet \/ MainEvent \/ MainStops \/ MainTag \/ MainCycle1 \/ MainCycle2
    \/ MainFinally \/ MainShutdown
    \/ SearchInit \/ SearchLoop \/ SearchWake \/ SearchWaitError
    \/ \E t \in Callers :
        \/ RcJoinReturn(t) \/ RcJoinTimeout(t) \/ RcAlive(t) \/ RcConnected(t)
        \/ QuitClearEmpty(t) \/ QuitClearGet(t) \/ QuitRunning(t)
        \/ QuitJoin(t) \/ QuitPut(t)
    \/ CapGate \/ CapWaitError \/ CapQuitEvent
    \/ CapRemoved \/ CapClearEmpty \/ CapClearGet \/ CapDisconnected
    \/ CapPoll \/ CapCopyPut

Spec == Init /\ [][Next]_vars

(***************************************************************************)
(* The specifications below exercise one object alone.  The program is as  *)
(* constructed and takes no step.                                          *)
(***************************************************************************)
ProgIdle ==
    /\ pc = [main |-> "m_connect", cap |-> "idle", search |-> "s_idle"]
    /\ queue = <<>>
    /\ cd_event = "Empty"
    /\ cd_input = EmptyInput
    /\ current_input = EmptyInput
    /\ controller = 0
    /\ controller_connected = FALSE
    /\ running = FALSE
    /\ running_event = FALSE
    /\ exit = FALSE
    /\ connection_timeout = DefaultTimeout
    /\ pgq = <<>>
    /\ allowed = SetAllowed({"MOTION", "REMOVED"})
    /\ pgAlive = TRUE
    /\ devPresent = FALSE
    /\ devInst = 0
    /\ devRaw = NeutralRaw
    /\ budget = 0
    /\ state = ControllerDataEmpty
    /\ inFinally = FALSE
    /\ cmds = <<>>
    /\ seen = NoSeen
    /\ hist = NoHist
    /\ Constructed

(***************************************************************************)
(* AxisSpec: XboxAnalogAxisConverter.convert on one raw axis sample after  *)
(* another.                                                                *)
(***************************************************************************)
\* raw axis values, -1.0 to 1.0 in hundredths: the tenths, the values next to
\* them, and the values around the trigger threshold 0.65
AxisValues ==
    {v \in -100..100 : v % 10 \in {0, 1, 9} \/ v \in {-36, -35, -34}}
\* the six axes of the pad and two indices beyond them
SampleIdx == 0..7

\* AxisInput(): positive True, value 0
AxisInputDefault == [positive |-> TRUE, value |-> 0]

InitAxis ==
    /\ ProgIdle
    /\ bench \in {[index |-> i, value |-> v, converted |-> FALSE, axis |-> AxisInputDefault,
                    hasLast |-> FALSE, lastValue |-> 0, lastAxis |-> AxisInputDefault] :
                   i \in SampleIdx, v \in AxisValues}

\* convert(index, value) is called on the sample
AxisConvert ==
    /\ ~bench.converted
    /\ bench' = [bench EXCEPT !.converted = TRUE, !.axis = convert(bench.index, bench.value)]
    /\ UNCHANGED <<progVars, motorPins, servoState, led>>

\* the next sample of the same axis is read
AxisSample ==
    /\ bench.converted
    /\ \E v \in AxisValues :
        bench' = [bench EXCEPT !.value = v, !.converted = FALSE, !.axis = AxisInputDefault,
                               !.hasLast = TRUE, !.lastValue = bench.value,
                               !.lastAxis = bench.axis]
    /\ UNCHANGED <<progVars, motorPins, servoState, led>>

NextAxis == AxisConvert \/ AxisSample

AxisSpec == InitAxis /\ [][NextAxis]_vars

(***************************************************************************)
(* SnapSpec: ControllerInput objects.  The three fields of an object are   *)
(* references to Python lists; heap[id] is what list id holds now.         *)
(***************************************************************************)
\* what the lists of the object hold
ValueOf(heap, obj) ==
    [buttons |-> heap[obj.buttons], hats |-> heap[obj.hats], axes |-> heap[obj.axes]]

\* the dataclass __eq__ on two objects
ObjEq(heap, x, y) == InputEq(ValueOf(heap, x), ValueOf(heap, y))

\* three lists put on the heap, and the object that refers to them
Allocated(heap, value) ==
    [heap |-> heap \o <<value.buttons, value.hats, value.axes>>,
     obj  |-> [buttons |-> Len(heap) + 1, hats |-> Len(heap) + 2, axes |-> Len(heap) + 3]]

\* the new object was given the lists of the old one
replace_Aliased(heap, self) == [heap |-> heap, obj |-> self]

\* ControllerInput.replace: a new object with copies of the three lists
replace(heap, self) == Allocated(heap, ValueOf(heap, self))

\* ControllerInput.copy: the fields of self are set to copies of the lists of
\* source; the lists self had are garbage
copy(heap, self, source) == Allocated(heap, ValueOf(heap, source))

\* ControllerInput.reset: the three lists are emptied in place
reset(heap, self) ==
    [heap EXCEPT ![self.buttons] = <<>>, ![self.hats] = <<>>, ![self.axes] = <<>>]

\* samples that differ from the neutral one in one button, one hat component,
\* the level of one stick, the sign of one stick, the level of one trigger;
\* and one that differs from another in the raw value only
SnapRaws ==
    {NeutralRaw,
     MakeRaw(0, 0, 0, 0, -100, -100, TRUE, FALSE, FALSE, FALSE, 0, 0),
     MakeRaw(0, 0, 0, 0, -100, -100, FALSE, FALSE, FALSE, FALSE, 1, 0),
     MakeRaw(0, 0, 0, 0, -100, -100, FALSE, FALSE, FALSE, FALSE, 0, -1),
     MakeRaw(30, 0, 0, 0, -100, -100, FALSE, FALSE, FALSE, FALSE, 0, 0),
     MakeRaw(35, 0, 0, 0, -100, -100, FALSE, FALSE, FALSE, FALSE, 0, 0),
     MakeRaw(-10, 0, 0, 0, -100, -100, FALSE, FALSE, FALSE, FALSE, 0, 0),
     MakeRaw(0, 0, 0, 0, 0, -100, FALSE, FALSE, FALSE, FALSE, 0, 0)}

\* two objects filled by the read loops of a poll cycle, and an empty third
InitSnap ==
    /\ ProgIdle
    /\ bench \in
        {LET first  == Allocated(<<>>, BuildInput(ra))
             second == Allocated(first.heap, BuildInput(rb))
             third  == Allocated(second.heap, EmptyInput)
         IN  [heap |-> third.heap, a |-> first.obj, b |-> second.obj, c |-> third.obj,
              ra |-> ra, rb |-> rb, old |-> BuildInput(ra), step |-> "built"] :
         ra \in SnapRaws, rb \in SnapRaws}

\* c = a.replace()
SnapReplace ==
    /\ bench.step = "built"
    /\ LET made == replace(bench.heap, bench.a) IN
        bench' = [bench EXCEPT !.heap = made.heap, !.c = made.obj, !.step = "replaced"]
    /\ UNCHANGED <<progVars, motorPins, servoState, led>>

\* c.copy(a)
SnapCopy ==
    /\ bench.step = "built"
    /\ LET made == copy(bench.heap, bench.c, bench.a) IN
        bench' = [bench EXCEPT !.heap = made.heap, !.c = made.obj, !.step = "copied"]
    /\ UNCHANGED <<progVars, motorPins, servoState, led>>

\* a.reset()
SnapReset ==
    /\ bench.step \in {"replaced", "copied"}
    /\ bench' = [bench EXCEPT !.heap = reset(bench.heap, bench.a),
                              !.step = IF bench.step = "replaced" THEN "replaced, reset"
                                       ELSE "copied, reset"]
    /\ UNCHANGED <<progVars, motorPins, servoState, led>>

NextSnap == SnapReplace \/ SnapCopy \/ SnapReset

SnapSpec == InitSnap /\ [][NextSnap]_vars

(***************************************************************************)
(* MotorSpec: move() and stop() called on the two motors, one              *)
(* set_PWM_dutycycle call at a time.                                       *)
(***************************************************************************)
\* duty cycles passed to move(), in hundredths: in range, at 1 and above it
DutyValues == {0, 5, 50, 99, 100, 101, 150, 250}

NoCall == [m |-> "left", op |-> "none", dutycycle |-> 0, forward |-> TRUE,
           writes |-> <<>>, done |-> FALSE, before |-> MotorInit]

InitMotor ==
    /\ ProgIdle
    /\ bench = NoCall

\* move(dutycycle, forward) is called: lines 260-269
MotorMoveCall ==
    /\ bench.writes = <<>>
    /\ \E m \in Motors, d \in DutyValues, f \in BOOLEAN :
        bench' = [m |-> m, op |-> "move", dutycycle |-> d, forward |-> f,
                  writes |-> MotorMoveWrites(d, f), done |-> FALSE,
                  before |-> motorPins[m]]
    /\ UNCHANGED <<progVars, motorPins, servoState, led>>

\* stop() is called
MotorStopCall ==
    /\ bench.writes = <<>>
    /\ \E m \in Motors :
        bench' = [m |-> m, op |-> "stop", dutycycle |-> 0, forward |-> TRUE,
                  writes |-> MotorStopWrites, done |-> FALSE,
                  before |-> motorPins[m]]
    /\ UNCHANGED <<progVars, motorPins, servoState, led>>

\* the next set_PWM_dutycycle call of the method; after the last it returns
MotorPinWrite ==
    /\ bench.writes # <<>>
    /\ motorPins' = [motorPins EXCEPT ![bench.m] = PinWrite(@, Head(bench.writes))]
    /\ bench' = [bench EXCEPT !.writes = Tail(@), !.done = (Tail(bench.writes) = <<>>)]
    /\ UNCHANGED <<progVars, servoState, led>>

NextMotor == MotorMoveCall \/ MotorStopCall \/ MotorPinWrite

MotorSpec == InitMotor /\ [][NextMotor]_vars

(***************************************************************************)
(* LedSpec: on(), off(), increment_brightness() and decrement_brightness() *)
(* called on the light in any order.                                       *)
(***************************************************************************)
\* bench: the last call, the light before it, whether decrement_brightness()
\* calls have brought the output down to 0, and whether they had before the
\* last call
InitLed ==
    /\ ProgIdle
    /\ bench = [op |-> "none", before |-> LedInit, dimmedOut |-> FALSE,
                wasDimmedOut |-> FALSE]

LedOnCall ==
    /\ led' = LedOn(led)
    /\ bench' = [op |-> "on", before |-> led,
                 dimmedOut |-> bench.dimmedOut /\ LedOn(led).out = 0,
                 wasDimmedOut |-> bench.dimmedOut]
    /\ UNCHANGED <<progVars, motorPins, servoState>>

LedOffCall ==
    /\ led' = LedOff(led)
    /\ bench' = [op |-> "off", before |-> led, dimmedOut |-> bench.dimmedOut,
                 wasDimmedOut |-> bench.dimmedOut]
    /\ UNCHANGED <<progVars, motorPins, servoState>>

LedIncrementCall ==
    /\ led' = LedIncrement(led)
    /\ bench' = [op |-> "increment_brightness", before |-> led, dimmedOut |-> FALSE,
                 wasDimmedOut |-> bench.dimmedOut]
    /\ UNCHANGED <<progVars, motorPins, servoState>>

LedDecrementCall ==
    /\ led' = LedDecrement(led)
    /\ bench' = [op |-> "decrement_brightness", before |-> led,
                 dimmedOut |-> LedDecrement(led).out = 0,
                 wasDimmedOut |-> bench.dimmedOut]
    /\ UNCHANGED <<progVars, motorPins, servoState>>

NextLed == LedOnCall \/ LedOffCall \/ LedIncrementCall \/ LedDecrementCall

LedSpec == InitLed /\ [][NextLed]_vars

(***************************************************************************)
(* ServoSpec: one ThreadedServo, its stepping thread (_run) and a caller of *)
(* move(), stop(), initial() and quit().  Duties are in units of 250, the  *)
(* smallest step main() uses; the servo is constructed with a short travel.*)
(* bench holds the object: duty (_current_duty), pwm (the duty last given  *)
(* to hardware_PWM), step, clockwise, event (_running_event), exit, the    *)
(* thread's position tpc with its locals, the caller's position cpc.       *)
(***************************************************************************)
\* _min_duty, _initial_duty and _max_duty of the servo
ServoMinDuty == 2
ServoInitialDuty == 6
ServoMaxDuty == 10

\* the steps run_servo passes to move(): 250, 500, 750, 1000
ServoSteps == {SERVO_STEP_SLOW \div 250, SERVO_STEP_MIDDLE \div 250,
               SERVO_STEP_HIGH \div 250, SERVO_STEP_MAX \div 250}

\* after __init__: the thread is started and initial() has run
ServoObject ==
    [duty |-> ServoInitialDuty, pwm |-> ServoInitialDuty, step |-> 4, clockwise |-> TRUE,
     event |-> FALSE, exit |-> FALSE,
     tpc |-> "t_wait", sum |-> ServoInitialDuty, dir |-> TRUE,
     cpc |-> "idle", call |-> "none", last |-> "none",
     called |-> FALSE,      \* a call acted on the object since the thread computed its step
     clamped |-> FALSE]     \* the thread clamped and stopped, and no call acted meanwhile or since

InitServo ==
    /\ ProgIdle
    /\ bench = ServoObject

\* a step of the caller
CallStep(next) ==
    /\ bench' = [next EXCEPT !.called = TRUE, !.clamped = FALSE]
    /\ UNCHANGED <<progVars, motorPins, servoState, led>>

\* a step of the stepping thread
ServoStep(next) ==
    /\ bench' = next
    /\ UNCHANGED <<progVars, motorPins, servoState, led>>

\* move(): lines 154-156, the three parameters are stored
ServoCallMove ==
    /\ bench.cpc = "idle"
    /\ \E st \in ServoSteps, cw \in BOOLEAN :
        CallStep([bench EXCEPT !.step = st, !.clockwise = cw, !.cpc = "mv_set",
                               !.call = "move"])

\* move(): line 158, self._running_event.set()
ServoMoveSet ==
    /\ bench.cpc = "mv_set"
    /\ CallStep([bench EXCEPT !.event = TRUE, !.cpc = "idle", !.call = "none",
                               !.last = "move"])

\* stop(): self._running_event.clear()
ServoCallStop ==
    /\ bench.cpc = "idle"
    /\ CallStep([bench EXCEPT !.event = FALSE, !.last = "stop"])

\* initial(): line 166, self.stop()
ServoCallInitial ==
    /\ bench.cpc = "idle"
    /\ CallStep([bench EXCEPT !.event = FALSE, !.cpc = "in_duty", !.call = "initial"])

\* initial(): line 167, self._current_duty = self._initial_duty
ServoInitialDuty_ ==
    /\ bench.cpc = "in_duty"
    /\ CallStep([bench EXCEPT !.duty = ServoInitialDuty, !.cpc = "in_pwm"])

\* initial(): lines 168-169, hardware_PWM with the initial duty, sleep, return
ServoInitialPwm ==
    /\ bench.cpc = "in_pwm"
    /\ CallStep([bench EXCEPT !.pwm = ServoInitialDuty,
                               !.cpc = IF bench.call = "quit" THEN "ended" ELSE "idle",
                               !.last = bench.call, !.call = "none"])

\* quit(): line 185, self.stop()
ServoCallQuit ==
    /\ bench.cpc = "idle"
    /\ CallStep([bench EXCEPT !.event = FALSE, !.cpc = "q_exit", !.call = "quit"])

\* quit(): line 186, self._exit = True
ServoQuitExit ==
    /\ bench.cpc = "q_exit"
    /\ CallStep([bench EXCEPT !.exit = TRUE, !.cpc = "q_set"])

\* quit(): line 187, self._running_event.set()
ServoQuitSet ==
    /\ bench.cpc = "q_set"
    /\ CallStep([bench EXCEPT !.event = TRUE, !.cpc = "q_join"])

\* quit(): lines 188-189, the join returns when the thread has ended; initial()
ServoQuitJoin ==
    /\ bench.cpc = "q_join"
    /\ bench.tpc = "t_done"
    /\ CallStep([bench EXCEPT !.event = FALSE, !.cpc = "in_duty"])

\* _run: line 115, self._running_event.wait()
ThreadWait ==
    /\ bench.tpc = "t_wait"
    /\ bench.event
    /\ ServoStep([bench EXCEPT !.tpc = "t_exit"])

\* _run: lines 117-118, `break` when _exit is set
ThreadExitCheck ==
    /\ bench.tpc = "t_exit"
    /\ ServoStep([bench EXCEPT !.tpc = IF bench.exit THEN "t_done" ELSE "t_load"])

\* _run: lines 120-121 and 128, _clockwise is tested and the new duty computed
ThreadLoad ==
    /\ bench.tpc = "t_load"
    /\ ServoStep([bench EXCEPT !.dir = bench.clockwise,
                               !.sum = IF bench.clockwise THEN bench.duty + bench.step
                                       ELSE bench.duty - bench.step,
                               !.tpc = "t_store", !.called = FALSE])

\* _run: lines 121 and 128, the new duty is stored in _current_duty
ThreadStore ==
    /\ bench.tpc = "t_store"
    /\ ServoStep([bench EXCEPT !.duty = bench.sum, !.tpc = "t_cmp"])

\* the test of lines 123 and 130 never found the duty beyond the limit
Beyond_Never(duty, clockwise) == FALSE

\* _run: lines 123 and 130, the duty is beyond the limit of its direction
Beyond(duty, clockwise) ==
    IF clockwise THEN duty > ServoMaxDuty ELSE duty < ServoMinDuty

ThreadCompare ==
    /\ bench.tpc = "t_cmp"
    /\ ServoStep([bench EXCEPT !.tpc = IF Beyond(bench.duty, bench.dir)
                                       THEN "t_clamp" ELSE "t_pwm"])

\* _run: lines 124 and 131, the duty is set to the limit
ThreadClamp ==
    /\ bench.tpc = "t_clamp"
    /\ ServoStep([bench EXCEPT !.duty = IF bench.dir THEN ServoMaxDuty ELSE ServoMinDuty,
                               !.tpc = "t_stop"])

\* _run: lines 125-126 and 132-133, self.stop() and `continue`
ThreadStop ==
    /\ bench.tpc = "t_stop"
    /\ ServoStep([bench EXCEPT !.event = FALSE, !.tpc = "t_wait",
                               !.clamped = ~bench.called])

\* _run: lines 135-136, hardware_PWM with _current_duty, sleep
ThreadPwm ==
    /\ bench.tpc = "t_pwm"
    /\ ServoStep([bench EXCEPT !.pwm = bench.duty, !.tpc = "t_wait"])

ThreadNext ==
    \/ ThreadWait \/ ThreadExitCheck \/ ThreadLoad \/ ThreadStore
    \/ ThreadCompare \/ ThreadClamp \/ ThreadStop \/ ThreadPwm

QuitNext == ServoQuitExit \/ ServoQuitSet \/ ServoQuitJoin \/ ServoInitialDuty_ \/ ServoInitialPwm

NextServo ==
    \/ ServoCallMove \/ ServoMoveSet \/ ServoCallStop
    \/ ServoCallInitial \/ ServoInitialDuty_ \/ ServoInitialPwm
    \/ ServoCallQuit \/ ServoQuitExit \/ ServoQuitSet \/ ServoQuitJoin
    \/ ThreadWait \/ ThreadExitCheck \/ ThreadLoad \/ ThreadStore
    \/ ThreadCompare \/ ThreadClamp \/ ThreadStop \/ ThreadPwm

ServoSpec == InitServo /\ [][NextServo]_vars

\* the stepping thread and a call once made go on running
ServoFairSpec == ServoSpec /\ WF_vars(ThreadNext) /\ WF_vars(QuitNext)

(***************************************************************************)
(* QuitSpec: quit() called again and again on a Controller whose run() was *)
(* never called.  The channel starts with what connect() calls may have    *)
(* left in it.                                                             *)
(***************************************************************************)
\* quit() calls in a row
MaxQuitCalls == 3
\* events in the channel before the first call
MaxQueued == 3

QueuedEvents == {"Connected", "Quit"}

NeverRunQueues ==
    UNION {{[i \in 1..n |-> Fresh(es[i])] : es \in [1..n -> QueuedEvents]} : n \in 0..MaxQueued}

\* the channel, the capture thread and pygame, as a quit() call leaves them
QuitOutcome == <<queue, pc.cap, running, running_event, controller,
                 controller_connected, pgAlive, pgq>>

InitQuit ==
    /\ queue \in NeverRunQueues
    /\ devPresent \in BOOLEAN
    /\ pc = [main |-> "q_empty", cap |-> "idle", search |-> "s_idle"]
    /\ cd_event = "Empty"
    /\ cd_input = EmptyInput
    /\ current_input = EmptyInput
    /\ controller = IF devPresent THEN 1 ELSE 0
    /\ controller_connected = devPresent
    /\ running = FALSE
    /\ running_event = FALSE
    /\ exit = FALSE
    /\ connection_timeout = DefaultTimeout
    /\ pgq = <<>>
    /\ allowed = SetAllowed({"MOTION", "REMOVED"})
    /\ pgAlive = TRUE
    /\ devInst = IF devPresent THEN 1 ELSE 0
    /\ devRaw = NeutralRaw
    /\ budget = 0
    /\ state = ControllerDataEmpty
    /\ inFinally = FALSE
    /\ cmds = <<>>
    /\ seen = NoSeen
    /\ hist = NoHist
    /\ Constructed
    /\ bench = [calls |-> 1, before |-> queue, first |-> <<>>]

\* the caller, to which quit() has returned, calls quit() once more
QuitAgain ==
    /\ pc.main = "m_handshake"
    /\ bench.calls < MaxQuitCalls
    /\ pc' = [pc EXCEPT !.main = "q_empty"]
    /\ bench' = [calls |-> bench.calls + 1, before |-> queue,
                 first |-> IF bench.calls = 1 THEN QuitOutcome ELSE bench.first]
    /\ UNCHANGED <<queue, objVars, controller, controller_connected, running,
                   running_event, exit, connection_timeout, pgVars, devVars,
                   mainVars, hist, motorPins, servoState, led>>

NextQuit ==
    \/ QuitClearEmpty("main") \/ QuitClearGet("main") \/ QuitRunning("main")
    \/ QuitPut("main") \/ QuitAgain

QuitSpec == InitQuit /\ [][NextQuit]_vars

(***************************************************************************)
(* QuerySpec: the device queries of controller.py, any of which may raise  *)
(* pygame.error: the identity matching of _try_connect_controller and the  *)
(* poll cycle of _run.  bench holds _controller_connected, the channel,    *)
(* the position of the capture thread, the snapshot last dispatched, and   *)
(* a record of the last operation.                                         *)
(***************************************************************************)
\* the names of the joysticks pygame lists: the pad looked for, or another
JoyNames == {"xbox", "other"}
JoyLists == {<<>>} \cup {<<a>> : a \in JoyNames} \cup {<<a, b>> : a \in JoyNames, b \in JoyNames}

\* _try_connect_controller, lines 107-124, over the joysticks from index i on;
\* failAt is the index of the joystick whose get_name() or init() raises
\* pygame.error (0: none does).  Gives the new _controller_connected and
\* channel.
RECURSIVE try_connect_controller(_, _, _, _, _)
try_connect_controller(joys, i, failAt, connected, q) ==
    IF i > Len(joys) THEN [connected |-> connected, queue |-> q, found |-> FALSE]
    ELSE IF i = failAt
    THEN \* lines 122-124: except pygame.error
         [connected |-> FALSE, queue |-> q, found |-> FALSE]
    ELSE IF joys[i] = "xbox"
    THEN [connected |-> TRUE, queue |-> PutConnected(q), found |-> TRUE]
    ELSE try_connect_controller(joys, i + 1, failAt, connected, q)

QueryIdle == [kind |-> "none", error |-> FALSE, before |-> <<>>]

InitQuery ==
    /\ ProgIdle
    /\ bench = [connected |-> FALSE, queue |-> <<>>, cap |-> "c_wait",
                last |-> EmptyInput, op |-> QueryIdle]

QueryStep(next) ==
    /\ bench' = next
    /\ UNCHANGED <<progVars, motorPins, servoState, led>>

\* connect() or the search thread calls _try_connect_controller
QueryTryConnect ==
    /\ ~bench.connected
    /\ Len(bench.queue) < MaxQueued
    /\ \E joys \in JoyLists : \E failAt \in 0..Len(joys) :
        LET r == try_connect_controller(joys, 1, failAt, bench.connected, bench.queue)
        IN  QueryStep([bench EXCEPT !.connected = r.connected, !.queue = r.queue,
                                   !.op = [kind |-> "match",
                                           error |-> failAt # 0 /\ ~r.found,
                                           before |-> bench.queue]])

\* _run, lines 196-241: one event of a connected controller is handled; the
\* queries of lines 206 and 221-231 may raise pygame.error, which nothing in
\* _run catches: the exception ends the thread
QueryPoll ==
    /\ bench.cap = "c_wait"
    /\ bench.connected
    /\ Len(bench.queue) < MaxQueued
    /\ \E raw \in SpecRaws, fails \in BOOLEAN :
        IF fails
        THEN QueryStep([bench EXCEPT !.cap = "crashed",
                                    !.op = [kind |-> "poll", error |-> TRUE,
                                            before |-> bench.queue]])
        ELSE IF Unchanged(bench.last, BuildInput(raw))
        THEN QueryStep([bench EXCEPT !.op = [kind |-> "poll", error |-> FALSE,
                                            before |-> bench.queue]])
        ELSE QueryStep([bench EXCEPT
                 !.last = BuildInput(raw),
                 !.queue = Append(@, [ref |-> "shared", ev |-> "InputChanged",
                                      inp |-> BuildInput(raw)]),
                 !.op = [kind |-> "poll", error |-> FALSE, before |-> bench.queue]])

\* _run, lines 204-213: the connected controller is removed
QueryRemoved ==
    /\ bench.cap = "c_wait"
    /\ bench.connected
    /\ QueryStep([bench EXCEPT
           !.connected = FALSE,
           !.last = EmptyInput,
           !.queue = <<[ref |-> "shared", ev |-> "Disconnected", inp |-> EmptyInput]>>,
           !.op = [kind |-> "removed", error |-> FALSE, before |-> bench.queue]])

\* main() takes an event from the channel
QueryGet ==
    /\ bench.queue # <<>>
    /\ QueryStep([bench EXCEPT !.queue = Tail(@),
                               !.op = [kind |-> "get", error |-> FALSE,
                                       before |-> bench.queue]])

NextQuery == QueryTryConnect \/ QueryPoll \/ QueryRemoved \/ QueryGet

QuerySpec == InitQuery /\ [][NextQuery]_vars

(***************************************************************************)
(* PollSpec: the poll cycles of a connected controller, one after the      *)
(* other, under the quantizing profile (XboxAnalogAxisConverter).  bench   *)
(* holds the snapshot last dispatched                                      *)
(* (_controller_data.controller_input), the snapshot of the last poll      *)
(* (current_input) and whether that poll put an InputChanged event.        *)
(***************************************************************************)
\* the left stick at rest, a little off centre to either side (inside the
\* Zero bucket) and pushed to either side; button A; the hat
PollRaws ==
    {MakeRaw(lx, 0, 0, 0, -100, -100, a, FALSE, FALSE, FALSE, hx, 0) :
        lx \in {-50, -10, 0, 10, 50}, a \in BOOLEAN, hx \in {0, 1}}

\* _run before its first poll: both snapshots are ControllerInput()
InitPoll ==
    /\ ProgIdle
    /\ bench = [last |-> EmptyInput, before |-> EmptyInput, current |-> EmptyInput,
                polled |-> FALSE, emitted |-> FALSE]

\* lines 219-241 of _run: the three read loops, the comparison of line 233,
\* and on a difference the copy and the put of InputChanged
PollCycle ==
    /\ \E raw \in PollRaws :
        LET current == BuildInput(raw) IN
        bench' = [last |-> IF Unchanged(bench.last, current) THEN bench.last ELSE current,
                  before |-> bench.last,
                  current |-> current,
                  polled |-> TRUE,
                  emitted |-> ~Unchanged(bench.last, current)]
    /\ UNCHANGED <<progVars, motorPins, servoState, led>>

NextPoll == PollCycle

PollSpec == InitPoll /\ [][NextPoll]_vars

(***************************************************************************)
(* Properties of the dispatch policy (DispatchSpec).                       *)
(***************************************************************************)
\* the commands of the current cycle that go to device dev, in order
CmdsTo(dev) == SelectSeq(cmds, LAMBDA c : c[1] = dev)
MotorCmds == SelectSeq(cmds, LAMBDA c : c[1] \in Motors)
Issued(c) == \E i \in DOMAIN cmds : cmds[i] = c
\* the duty cycle of a level, in hundredths: 0.25 per level
DutyOf(level) == 25 * level
Max0(v) == IF v < 0 THEN 0 ELSE v
\* the drive logic of the cycle has run (the cycle was not cut short before it)
DriveRan == seen.ev = "InputChanged" /\ seen.out \in {"spin", "next", "break"}

\* C7: in an InputChanged cycle whose fault input reads asserted no command goes
\* to either drive motor, whatever the sticks and triggers are; the light and
\* servo commands of the cycle are issued; main() waits for the next event.
C7_FaultSkipsDrive ==
    seen.fault = "yes" =>
        /\ MotorCmds = <<>>
        /\ Len(CmdsTo("pan")) >= 1 /\ Len(CmdsTo("tilt")) >= 1
        /\ (StickRightX(seen.in1).value = 0 <=> Issued(<<"pan", "stop">>))
        /\ (StickRightY(seen.in1).value = 0 <=> Issued(<<"tilt", "stop">>))
        /\ (HatX(seen.in1) > 0 <=> Issued(<<"led", "on">>))
        /\ (HatX(seen.in1) < 0 <=> Issued(<<"led", "off">>))
        /\ (HatY(seen.in1) > 0 <=> Issued(<<"led", "increment_brightness">>))
        /\ (HatY(seen.in1) < 0 <=> Issued(<<"led", "decrement_brightness">>))
        /\ (ButtonStickRight(seen.in1) <=> Issued(<<"pan", "initial">>))
        /\ pc.main = "m_get"

C7_Witness ==
    /\ seen.fault = "yes"
    /\ pc.main = "m_get"
    /\ StickLeftY(seen.in1).value # 0
    /\ HatX(seen.in1) > 0
    /\ StickRightX(seen.in1).value # 0

\* C8: in an unfaulted cycle with exactly one trigger level nonzero, the motor on
\* the pressed trigger's side is commanded backward and the other one forward,
\* both at the duty cycle of that trigger's level, and these are the only motor
\* commands of the cycle; with both or neither trigger nonzero the motor
\* commands are those of the left stick.
C8_SpinTurn ==
    DriveRan =>
        LET tl == TriggerLeft(seen.in2).value
            tr == TriggerRight(seen.in2).value
        IN  /\ (tl # 0 /\ tr = 0) =>
                    /\ MotorCmds = <<<<"left", "move", DutyOf(tl), FALSE>>,
                                     <<"right", "move", DutyOf(tl), TRUE>>>>
                    /\ seen.out = "spin"
            /\ (tl = 0 /\ tr # 0) =>
                    /\ MotorCmds = <<<<"left", "move", DutyOf(tr), TRUE>>,
                                     <<"right", "move", DutyOf(tr), FALSE>>>>
                    /\ seen.out = "spin"
            /\ ((tl = 0) = (tr = 0)) =>
                    /\ seen.out # "spin"
                    /\ MotorCmds = GeneralDriveCmds(seen.in2)
                    /\ (StickLeftX(seen.in2).value = 0 /\ StickLeftY(seen.in2).value = 0)
                            => MotorCmds = <<<<"left", "stop">>, <<"right", "stop">>>>

\* left trigger level 2, right trigger 0: left backward at 0.5, right forward at 0.5
C8_Witness ==
    /\ DriveRan
    /\ TriggerLeft(seen.in2).value = 2
    /\ TriggerRight(seen.in2).value = 0
    /\ StickLeftY(seen.in2).value # 0
    /\ MotorCmds = <<<<"left", "move", 50, FALSE>>, <<"right", "move", 50, TRUE>>>>

\* a general-drive cycle with both left stick levels nonzero
Blending ==
    /\ DriveRan
    /\ seen.out # "spin"
    /\ StickLeftX(seen.in2).value # 0
    /\ StickLeftY(seen.in2).value # 0

\* C9 as claimed: the motor on the side matching X's sign (the right motor when X
\* is positive) gets the duty cycle of Y's level, the other motor
\* max(0, outer - 0.15 * X.level), both in the direction of Y's sign.
C9_OuterMatchesXSign ==
    Blending =>
        LET x == StickLeftX(seen.in2)
            y == StickLeftY(seen.in2)
            outer == IF x.positive THEN "right" ELSE "left"
            inner == IF x.positive THEN "left" ELSE "right"
        IN  /\ CmdsTo(outer) = <<<<outer, "move", DutyOf(y.value), ~y.positive>>>>
            /\ CmdsTo(inner) = <<<<inner, "move",
                                   Max0(DutyOf(y.value) - 15 * x.value), ~y.positive>>>>

\* C9 as the code has it: the motor on the side opposite to X's sign (the left
\* motor when X is positive) gets the duty cycle of Y's level, the motor on the
\* side of X's sign max(0, that - 0.15 * X.level), both forward exactly when Y
\* is negative.
C9_OuterOppositeXSign ==
    Blending =>
        LET x == StickLeftX(seen.in2)
            y == StickLeftY(seen.in2)
            outer == IF x.positive THEN "left" ELSE "right"
            inner == IF x.positive THEN "right" ELSE "left"
        IN  /\ CmdsTo(outer) = <<<<outer, "move", DutyOf(y.value), ~y.positive>>>>
            /\ CmdsTo(inner) = <<<<inner, "move",
                                   Max0(DutyOf(y.value) - 15 * x.value), ~y.positive>>>>

\* Y level 3, X level 1, X positive: left 0.75, right 0.60
C9_Witness ==
    /\ Blending
    /\ StickLeftY(seen.in2).value = 3
    /\ StickLeftX(seen.in2).value = 1
    /\ StickLeftX(seen.in2).positive
    /\ CmdsTo("left") = <<<<"left", "move", 75, ~StickLeftY(seen.in2).positive>>>>
    /\ CmdsTo("right") = <<<<"right", "move", 60, ~StickLeftY(seen.in2).positive>>>>

\* C10: an InputChanged cycle whose snapshot has Back and Start both pressed ends
\* the dispatch loop, whatever the triggers, the sticks and the fault input are.
C10_BackStartEndsLoop ==
    (/\ seen.ev = "InputChanged"
     /\ seen.out \in {"faulted", "spin", "next", "break"}
     /\ ButtonBack(seen.in1) /\ ButtonStart(seen.in1))
        => (seen.out = "break" /\ pc.main = "m_finally")


(***************************************************************************)
(* Properties of capture, search and channel (Spec).                       *)
(***************************************************************************)
\* the _reconnect_controller call of the current search is over
RcOver == hist.rcEnd \in {"returned", "raised"}

\* C1: when a search timed out and no matching controller was there to be found,
\* the caller of _reconnect_controller (main() in connect(), or the capture
\* thread after a removal) has put a Quit event by the time the call is over,
\* and no Connected event was put.
C1_TimeoutEmitsQuit ==
    (hist.timedOut /\ ~hist.attached /\ RcOver) =>
        (hist.nQuit > hist.quitAtStart /\ hist.nConnected = hist.connAtStart)

\* C2: a poll cycle of the connected controller goes on to put InputChanged
\* exactly when the snapshot it built differs from the snapshot of the capture
\* thread's last put, and then puts that snapshot; otherwise it puts nothing.
PollStep == pc.cap = "c_wait" /\ pc'.cap \in {"c_gate", "c_copy"} /\ controller_connected
C2_EmitsIffChanged ==
    [][/\ PollStep =>
            /\ (pc'.cap = "c_copy") <=> (BuildInput(devRaw) # hist.lastDispatched)
            /\ queue' = queue
       /\ (pc.cap = "c_copy" /\ pc'.cap # "c_copy") =>
            /\ Len(queue') = Len(queue) + 1
            /\ queue'[Len(queue')].ev = "InputChanged"
            /\ queue'[Len(queue')].inp = current_input
            /\ queue'[Len(queue')].inp # hist.lastDispatched
       /\ (pc.cap \in {"c_gate", "c_wait"} /\ pc'.cap \in {"c_gate", "c_wait"})
            => hist'.lastDispatched = hist.lastDispatched]_vars

\* a poll of an unchanged controller after an InputChanged event was sent
C2_Witness ==
    /\ hist.lastPoll = "same"
    /\ pc.cap = "c_gate"
    /\ hist.lastDispatched # EmptyInput
    /\ cd_event = "InputChanged"

\* C3: once the capture thread is past the handling of a removal notification,
\* each notification has produced one Disconnected event with an empty
\* snapshot, put into an emptied channel, and one search.
C3_DisconnectSequence ==
    pc.cap \notin {"c_clr_empty", "c_clr_get", "c_disc"} =>
        /\ hist.nDisconnected = hist.nRemoved
        /\ hist.nSearchCap = hist.nRemoved
        /\ ~hist.staleAtDisc
        /\ \A i \in DOMAIN queue :
                queue[i].ev = "Disconnected" => queue[i].inp = EmptyInput

\* C4: the event the dispatch loop takes from the channel right after one sent
\* as Disconnected was sent as Connected or as Quit.
C4_AfterDisconnected ==
    seen.prev = "Disconnected" => seen.cur \in {"Connected", "Quit"}

\* C5: a search whose caller has timed out and set the exit flag puts no
\* Connected event.
C5_NoConnectedAfterTimeout == ~hist.lateConnected

\* C6: while main() handles an event, the tag and the snapshot it reads from it
\* are those the event had when it was put.
C6_EventNotMutated ==
    pc.main \in {"m_event", "m_stops", "m_tag", "m_cycle1", "m_cycle2"} =>
        (EventOf(state) = state.ev /\ InputOf(state) = state.inp)

\* C11: once the dispatch loop has read an event as Disconnected (line 167) and
\* gone through the test of line 173, it has issued stop() to both servos and
\* both motors and nothing else, and waits for the next event.
C11_DisconnectedStopsOnly ==
    (seen.ev2 = "Disconnected" /\ pc.main # "m_tag") =>
        /\ pc.main = "m_get"
        /\ seen.out = "next"
        /\ CmdsTo("led") = <<>>
        /\ cmds = <<<<"pan", "stop">>, <<"tilt", "stop">>,
                    <<"left", "stop">>, <<"right", "stop">>>>

(***************************************************************************)
(* Properties of the shutdown sequence (Spec).                             *)
(***************************************************************************)
MotorsStopped == \A m \in Motors : motorPins[m] = [fwd |-> 0, bwd |-> 0]
ServosNeutral == \A s \in Servos : servoState[s] = [moving |-> FALSE, pos |-> "neutral"]

\* main() came to its finally clause by an exception raised in the dispatch
\* loop, or by the Quit of a reconnection that timed out after a disconnect
FatalShutdown ==
    \/ hist.why = "raised"
    \/ hist.why = "quit" /\ hist.nDisconnected > 0

\* main() has ended: its finally clause ran to the end, or raised
MainEnded == pc.main \in {"m_done", "m_crashed"}

\* C12: when the process shuts down because of a fatal disconnect timeout or
\* an exception raised during dispatch, it ends with both motors stopped, both
\* servos back at neutral and the light's output as it was before the shutdown.
C12_ShutdownLeavesSafe ==
    (MainEnded /\ FatalShutdown) =>
        /\ MotorsStopped
        /\ ServosNeutral
        /\ led.out = hist.ledThen.out

(***************************************************************************)
(* Properties of connect() and quit() (Spec).                              *)
(***************************************************************************)
\* connect() found no controller, none was plugged in since, and connect()
\* has returned to main(), which has not yet taken an event
ConnectGaveUp ==
    /\ pc.main = "m_handshake"
    /\ state = ControllerDataEmpty
    /\ hist.rcBy = "main" /\ hist.rcEnd = "returned"
    /\ ~hist.attached

\* C13 as stated: when connect() finds no matching controller and none is
\* plugged in before the timeout, connect() puts no event into the channel.
C13_ConnectPutsNothing == ConnectGaveUp => queue = <<>>

\* C13, amended: when connect() finds no matching controller and none is
\* plugged in before it returns, it leaves exactly one event in the channel, a
\* Quit, and has put no Connected.
C13_ConnectPutsOnlyQuit ==
    ConnectGaveUp => queue = <<Fresh("Quit")>> /\ hist.nConnected = 0 /\ hist.nQuit = 1

C13_Witness == ConnectGaveUp /\ hist.timedOut /\ connection_timeout = DefaultTimeout

\* main() called quit() on a capture that run() had started, and quit() returned
QuitReturned == pc.main \in {"m_shutdown", "m_done"} /\ running

\* C14: quit() on a running capture runs to its end (it empties the channel,
\* posts QUIT, joins the capture thread, puts Quit) and, once it has returned,
\* the capture thread has ended and Quit is the last event in the channel.
C14_QuitEmitsFinalQuit ==
    /\ (running /\ inFinally) => pc.main # "m_crashed"
    /\ QuitReturned => /\ pc.cap \in CapDead
                       /\ queue # <<>>
                       /\ EventOf(queue[Len(queue)]) = "Quit"

(***************************************************************************)
(* Properties of quit() on a Controller that was never run (QuitSpec).     *)
(***************************************************************************)
\* a quit() call has returned to its caller
QuitCallReturned == pc.main = "m_handshake"

\* the capture thread was not started and its flags are as constructed
CaptureUntouched == pc.cap = "idle" /\ ~running /\ ~running_event

\* C15 as stated: quit() on a Controller whose run() was never called is a
\* no-op: it leaves the channel as it was before the call, and the capture
\* state unchanged.
C15_QuitIsNoOp == QuitCallReturned => queue = bench.before /\ CaptureUntouched

\* C15, amended: every quit() call on a Controller whose run() was never
\* called empties the channel and leaves exactly one Quit in it, leaves the
\* capture state unchanged, and a repeated call leaves what the first call left.
C15_QuitLeavesOneQuit ==
    QuitCallReturned =>
        /\ queue = <<Fresh("Quit")>>
        /\ CaptureUntouched
        /\ bench.calls > 1 => QuitOutcome = bench.first

C15_Witness ==
    /\ QuitCallReturned
    /\ bench.calls = 2
    /\ Len(bench.first[1]) = 1
    /\ ~pgAlive

(***************************************************************************)
(* Properties of the quantizer (AxisSpec).                                 *)
(***************************************************************************)
\* the number of thresholds, out of four, that v has reached
Reached(v, t1, t2, t3, t4) ==
    (IF v >= t1 THEN 1 ELSE 0) + (IF v >= t2 THEN 1 ELSE 0)
        + (IF v >= t3 THEN 1 ELSE 0) + (IF v >= t4 THEN 1 ELSE 0)

StickSample == bench.converted /\ bench.index \notin {4, 5}
TriggerSample == bench.converted /\ bench.index \in {4, 5}

\* C16: the level of a stick value v is one of 0..4, it is the number of the
\* thresholds 0.2, 0.4, 0.6, 0.8 that |v| has reached (0.19 gives Zero, 0.2
\* Slow, 0.79 High, 0.8 Max), it does not decrease when |v| grows, and the
\* sign reported is v >= 0.
C16_StickLevels ==
    StickSample =>
        /\ bench.axis.value \in 0..4
        /\ bench.axis.value = Reached(Abs(bench.value), 20, 40, 60, 80)
        /\ bench.axis.positive = (bench.value >= 0)
        /\ Abs(bench.value) = 19 => bench.axis.value = 0
        /\ Abs(bench.value) = 20 => bench.axis.value = 1
        /\ Abs(bench.value) = 79 => bench.axis.value = 3
        /\ Abs(bench.value) = 80 => bench.axis.value = 4
        /\ (bench.hasLast /\ Abs(bench.lastValue) <= Abs(bench.value)) =>
               bench.lastAxis.value <= bench.axis.value

C16_Witness ==
    /\ StickSample
    /\ bench.value = -20 /\ bench.axis.value = 1
    /\ bench.hasLast /\ bench.lastValue = 19 /\ bench.lastAxis.value = 0

\* C17: on the trigger indices 4 and 5 the level of a value v is the number of
\* the thresholds 0.2, 0.65, 1.1, 1.6 that the sum 1 + v has reached (-1 gives
\* Zero, 1 gives Max) and the sign reported is positive; on every other index
\* the value is quantized as a stick value.
C17_TriggerLevels ==
    /\ TriggerSample =>
        /\ bench.axis.value = Reached(TriggerSum(bench.value), 20, 65, 110, 160)
        /\ bench.axis.positive
        /\ bench.value = -100 => bench.axis.value = 0
        /\ bench.value = 100 => bench.axis.value = 4
    /\ StickSample =>
        /\ bench.axis.value = round_stick_value(bench.value)
        /\ bench.axis.positive = is_positive(bench.value)

C17_Witness ==
    /\ TriggerSample
    /\ bench.value = -35 /\ bench.axis.value = 2 /\ bench.axis.positive
    /\ bench.hasLast /\ bench.lastValue = -36 /\ bench.lastAxis.value = 1

(***************************************************************************)
(* Properties of ControllerInput (SnapSpec).                               *)
(***************************************************************************)
\* the two snapshots differ in a button, a hat component, or the level of an axis
DifferSomewhere(x, y) ==
    \/ \E i \in ButtonIdx : x.buttons[i] # y.buttons[i]
    \/ \E k \in 1..2 : x.hats[1][k] # y.hats[1][k]
    \/ \E i \in AxisIdx : x.axes[i].value # y.axes[i].value

SnapCopied == bench.step \in {"replaced", "copied"}
SnapAfterReset == bench.step \in {"replaced, reset", "copied, reset"}

\* C18: snapshot equality is reflexive and symmetric; snapshots built from the
\* same raw sample are equal and snapshots that differ in a button, a hat
\* component or an axis level are unequal; a copy made by replace() or copy()
\* equals its source, and after the source is reset it still equals the value
\* the source had.
C18_SnapshotEquality ==
    /\ ObjEq(bench.heap, bench.a, bench.a)
    /\ ObjEq(bench.heap, bench.b, bench.b)
    /\ ObjEq(bench.heap, bench.c, bench.c)
    /\ ObjEq(bench.heap, bench.a, bench.b) = ObjEq(bench.heap, bench.b, bench.a)
    /\ ObjEq(bench.heap, bench.a, bench.c) = ObjEq(bench.heap, bench.c, bench.a)
    /\ bench.step = "built" =>
        /\ bench.ra = bench.rb => ObjEq(bench.heap, bench.a, bench.b)
        /\ DifferSomewhere(BuildInput(bench.ra), BuildInput(bench.rb)) =>
               ~ObjEq(bench.heap, bench.a, bench.b)
    /\ SnapCopied => ObjEq(bench.heap, bench.c, bench.a)
    /\ SnapAfterReset =>
        /\ InputEq(ValueOf(bench.heap, bench.c), bench.old)
        /\ ValueOf(bench.heap, bench.a) = EmptyInput

C18_Witness ==
    /\ bench.step = "copied, reset"
    /\ bench.old = BuildInput(MakeRaw(30, 0, 0, 0, -100, -100, FALSE, FALSE, FALSE, FALSE, 0, 0))
    /\ ValueOf(bench.heap, bench.c) = bench.old
    /\ ~ObjEq(bench.heap, bench.a, bench.c)

(***************************************************************************)
(* Properties of Motor (MotorSpec).                                        *)
(***************************************************************************)
\* the pin move() was told to drive
SelectedPin == IF bench.forward THEN "fwd" ELSE "bwd"

\* C19: when move(d, dir) with d above 1 has returned, the pin of the selected
\* direction is at the maximum duty cycle; when stop() has returned, the
\* forward and the backward pin are both at zero.
C19_MoveClampsStopZeroes ==
    /\ (bench.done /\ bench.op = "move" /\ bench.dutycycle > 100) =>
           motorPins[bench.m][SelectedPin] = MAX_DUTYCYCLE
    /\ (bench.done /\ bench.op = "stop") =>
           motorPins[bench.m] = [fwd |-> 0, bwd |-> 0]

C19_Witness ==
    /\ bench.done /\ bench.op = "move" /\ bench.dutycycle = 250 /\ ~bench.forward
    /\ motorPins[bench.m] = [fwd |-> 0, bwd |-> 1000]
    /\ \E m \in Motors : m # bench.m /\ motorPins[m].fwd = 500

(***************************************************************************)
(* Properties of the light (LedSpec).                                      *)
(***************************************************************************)
\* on() was called when decrement_brightness() calls had brought the output
\* down to 0
OnAfterDimmedOut == bench.op = "on" /\ bench.wasDimmedOut

\* C20: after any sequence of on(), off(), increment_brightness() and
\* decrement_brightness() the stored brightness is within 0 and 1 and the PWM
\* output within 0 and PWM_RANGE; on() called when the brightness has been
\* decremented down to 0 outputs full brightness; off() leaves the stored
\* brightness unchanged.
C20_LightContract ==
    /\ ~FloatLess(led.duty, FloatZero) /\ ~FloatLess(FloatOne, led.duty)
    /\ led.out \in 0..PWM_RANGE
    /\ OnAfterDimmedOut => led.out = PWM_RANGE
    /\ bench.op = "off" => led.duty = bench.before.duty

(***************************************************************************)
(* Properties of ServoSpec                                                 *)
(***************************************************************************)
\* initial() was the last call made, it has returned, and the thread is
\* back in its wait()
InitialReturned ==
    /\ bench.last = "initial"
    /\ bench.cpc = "idle"
    /\ bench.tpc = "t_wait"

\* C21: after initial() has returned and with no further move(), the servo is
\* stopped and the duty given to the hardware is the initial (neutral) duty,
\* also when the servo was moving when initial() was called.
C21_InitialLeavesNeutral ==
    InitialReturned =>
        /\ ~bench.event
        /\ bench.pwm = ServoInitialDuty

\* the limit of the direction the thread is stepping in
TravelLimit == IF bench.dir THEN ServoMaxDuty ELSE ServoMinDuty

\* C25: whatever move(), stop() and initial() calls are interleaved with the
\* stepping thread, the duty given to the hardware lies within
\* [_min_duty, _max_duty]; and when a step of the thread would cross a travel
\* limit (no call acting on the servo during that step or since), the stored
\* position is that limit and the motion is stopped.
C25_DutyWithinTravel ==
    /\ bench.pwm \in ServoMinDuty..ServoMaxDuty
    /\ bench.clamped =>
        /\ bench.duty = TravelLimit
        /\ ~bench.event
        /\ bench.tpc = "t_wait"

\* a move() has run the thread into the upper limit with a step that does not
\* divide the remaining travel: the hardware holds the last duty below the limit
C25_Witness ==
    /\ bench.clamped
    /\ bench.duty = ServoMaxDuty
    /\ bench.pwm < ServoMaxDuty
    /\ bench.last = "move"

\* C28: quit() always terminates, whatever the stepping thread is doing when
\* it is called: the thread leaves its loop, the join returns and quit()
\* returns.
C28_QuitTerminates == (bench.call = "quit") ~> (bench.cpc = "ended")

(***************************************************************************)
(* Properties of MotorSpec: the two pins of a motor                        *)
(***************************************************************************)
\* C29: for any sequence of move() and stop() calls, at most one of the
\* forward and backward pins of a motor has a nonzero duty cycle, after every
\* completed call and also inside move(), which zeroes the opposite pin before
\* it energises the selected one.
C29_OnePinEnergised ==
    \A m \in Motors : motorPins[m].fwd = 0 \/ motorPins[m].bwd = 0

\* a move() that reverses a running motor has returned
C29_Witness ==
    /\ bench.done
    /\ bench.op = "move"
    /\ bench.before[IF bench.forward THEN "bwd" ELSE "fwd"] > 0
    /\ motorPins[bench.m][SelectedPin] > 0

(***************************************************************************)
(* Properties of DispatchSpec: the servo and the left-stick commands       *)
(***************************************************************************)
\* the light and servo part of an InputChanged cycle has run
CameraRan == seen.ev = "InputChanged" /\ seen.fault # "unread"

\* the first command a cycle gives a servo for an axis of the right stick
AxisCmd(servo, axis, clockwise) ==
    IF axis.value = 0 THEN <<servo, "stop">>
    ELSE <<servo, "move", 250 * axis.value, SERVO_INTERVAL, clockwise>>

\* C23: in every InputChanged cycle each positioning servo gets stop() when its
\* right-stick axis level is 0 and move(250 * level, 0.025, direction)
\* otherwise; when the right-stick button is pressed initial() is issued on
\* both servos after those commands, so that both servos end the cycle
\* stopped at neutral whatever the right-stick levels are.
C23_ServoCycle ==
    CameraRan =>
        LET x == StickRightX(seen.in1)
            y == StickRightY(seen.in1)
        IN  /\ CmdsTo("pan")[1] = AxisCmd("pan", x, ~x.positive)
            /\ CmdsTo("tilt")[1] = AxisCmd("tilt", y, y.positive)
            /\ IF ButtonStickRight(seen.in1)
               THEN /\ CmdsTo("pan") = <<AxisCmd("pan", x, ~x.positive), <<"pan", "initial">>>>
                    /\ CmdsTo("tilt") = <<AxisCmd("tilt", y, y.positive), <<"tilt", "initial">>>>
                    /\ \A s \in Servos : servoState[s] = [moving |-> FALSE, pos |-> "neutral"]
               ELSE Len(CmdsTo("pan")) = 1 /\ Len(CmdsTo("tilt")) = 1

\* an unfaulted cycle that is not a spin turn: the left stick drives
GeneralDrive == DriveRan /\ seen.out # "spin"

\* C24: in a general-drive cycle with left stick Y level zero and X level
\* nonzero the motor on the side of X's sign (the right motor when X is
\* positive) is stopped and the other motor is commanded forward at the duty
\* cycle of X's level; with Y nonzero and X zero both motors are commanded at
\* the duty cycle of Y's level, forward exactly when Y is negative; with both
\* zero both motors are stopped.
C24_LeftStickDrive ==
    GeneralDrive =>
        LET x == StickLeftX(seen.in2)
            y == StickLeftY(seen.in2)
            side == IF x.positive THEN "right" ELSE "left"
            other == IF x.positive THEN "left" ELSE "right"
        IN  /\ (y.value = 0 /\ x.value # 0) =>
                /\ MotorCmds = <<<<side, "stop">>, <<other, "move", DutyOf(x.value), TRUE>>>>
                /\ motorPins[side] = [fwd |-> 0, bwd |-> 0]
                /\ motorPins[other] = [fwd |-> 10 * DutyOf(x.value), bwd |-> 0]
            /\ (y.value # 0 /\ x.value = 0) =>
                /\ MotorCmds = <<<<"left", "move", DutyOf(y.value), ~y.positive>>,
                                 <<"right", "move", DutyOf(y.value), ~y.positive>>>>
                /\ motorPins["left"] = motorPins["right"]
                /\ motorPins["left"][IF y.positive THEN "bwd" ELSE "fwd"] = 10 * DutyOf(y.value)
                /\ motorPins["left"][IF y.positive THEN "fwd" ELSE "bwd"] = 0
            /\ (y.value = 0 /\ x.value = 0) =>
                /\ MotorCmds = <<<<"left", "stop">>, <<"right", "stop">>>>
                /\ MotorsStopped

\* left stick pushed right at level 3 only: the right motor is stopped, the
\* left one runs forward at 0.75
C24_Witness ==
    /\ GeneralDrive
    /\ StickLeftY(seen.in2).value = 0
    /\ StickLeftX(seen.in2).value = 3
    /\ StickLeftX(seen.in2).positive
    /\ motorPins["right"] = [fwd |-> 0, bwd |-> 0]
    /\ motorPins["left"] = [fwd |-> 750, bwd |-> 0]

(***************************************************************************)
(* Properties of QuerySpec                                                 *)
(***************************************************************************)
\* C22: a device error raised by a device query, during identity matching or
\* during a poll cycle of the capture loop, is caught where it occurs: the
\* controller is left marked not connected, no event is put into the
\* channel, and the capture thread goes on.
C22_DeviceErrorCaught ==
    bench.op.error =>
        /\ ~bench.connected
        /\ bench.queue = bench.op.before
        /\ bench.cap # "crashed"

(***************************************************************************)
(* Properties of Spec: the search without a time limit, the draining of    *)
(* the channel, the snapshot of a cycle                                    *)
(***************************************************************************)
\* a search was started with _connection_timeout 0 and no matching controller
\* has been there or been plugged in since
WaitingUnbounded ==
    /\ connection_timeout = 0
    /\ hist.rcBy # "none"
    /\ ~hist.attached

\* C26: with a reconnection timeout of 0 a search never times out: as long as
\* no matching device attaches, the caller of _reconnect_controller (connect()
\* or the capture thread) stays in its join, no Quit and no Connected event
\* is put, and quit() is not called.
C26_ZeroNeverTimesOut ==
    WaitingUnbounded =>
        /\ ~hist.timedOut
        /\ pc[hist.rcBy] = "rc_join"
        /\ hist.rcEnd = "pending"
        /\ hist.nQuit = hist.quitAtStart
        /\ hist.nConnected = hist.connAtStart

\* the capture thread is still waiting after a removal when the user has done
\* all they do, the last of it plugging in a joystick of another name
C26_Witness ==
    /\ WaitingUnbounded
    /\ hist.rcBy = "cap"
    /\ pc.cap = "rc_join"
    /\ pc.search = "s_wait"
    /\ budget = 0
    /\ pgq = <<>>

\* a thread is inside clear(), between the empty() test that found an item and
\* the get_nowait() that takes it
Draining(t) == pc[t] \in {"c_clr_get", "q_get"}

\* C27: draining the channel from the capture side, on a removal or in quit(),
\* never fails under any interleaving with the dispatch loop's receive: the
\* get_nowait() of clear() always finds the item its empty() test saw, so
\* clear() does not raise.
C27_ClearNeverRaises == \A t \in Callers : Draining(t) => queue # <<>>

\* C30: while the dispatch loop processes one InputChanged event, every
\* button, hat and axis value it reads belongs to the same poll cycle: the
\* snapshot read for the light and the servos is the one read for the drive
\* motors, and it is never an emptied snapshot, whatever the capture thread
\* does meanwhile.
C30_OneSnapshotPerCycle ==
    seen.ev = "InputChanged" =>
        /\ seen.out # "raised"
        /\ DriveRan => seen.in1 = seen.in2

(***************************************************************************)
(* Properties of PollSpec                                                  *)
(***************************************************************************)
\* two snapshots with the same buttons, the same hats and the same quantized
\* level on every axis
SameLevels(a, b) ==
    /\ a.buttons = b.buttons
    /\ a.hats = b.hats
    /\ DOMAIN a.axes = DOMAIN b.axes
    /\ \A i \in DOMAIN a.axes : a.axes[i].value = b.axes[i].value

\* the sign of an axis differs between the two snapshots only where its level
\* is 0, the raw value having stayed inside the Zero bucket
SignOnlyAtZero(a, b) ==
    \A i \in DOMAIN a.axes :
        a.axes[i].positive # b.axes[i].positive => a.axes[i].value = 0

\* C31: under the quantizing profile a poll whose buttons, hats and quantized
\* axis levels all equal those of the last dispatched snapshot puts no
\* InputChanged event, also when a raw stick value inside the Zero bucket
\* changed sign between the two polls.
C31_SameLevelsNoEvent ==
    (/\ bench.polled
     /\ SameLevels(bench.before, bench.current)
     /\ SignOnlyAtZero(bench.before, bench.current)) => ~bench.emitted

(***************************************************************************)
(* Properties of Spec: the startup of main()                               *)
(***************************************************************************)
\* run() has been called: the capture thread was started
RunCalled == pc.cap # "idle"

\* main() came to its finally clause from the wait for the connection, on a
\* Quit event, and not from the dispatch loop
QuitAtStartup == inFinally /\ hist.why = "none"

\* the places of main() in its finally clause when the capture was never
\* started: controller.quit() without the join, then the other quit() calls
StartupShutdownPath == {"q_empty", "q_get", "q_run", "q_put", "m_shutdown", "m_done"}

\* C32: at startup run() is called only after main() has received a Connected
\* event; when it receives a Quit event first, run() is never called, the
\* dispatch loop is never entered, no movement command goes to a motor or a
\* servo, and the shutdown sequence runs: main() goes through its finally
\* clause without raising or blocking and ends with the quit() calls issued.
C32_RunOnlyAfterConnected ==
    /\ pc.main = "m_run" => (state.ev = "Connected" /\ ~RunCalled)
    /\ RunCalled => (hist.nConnected > 0 /\ pc.main # "m_handshake" /\ pc.main # "m_connect")
    /\ (pc.main = "m_finally" /\ seen.out = "none") => state.ev = "Quit"
    /\ QuitAtStartup =>
        /\ state.ev = "Quit"
        /\ ~RunCalled /\ ~running
        /\ seen = NoSeen
        /\ pc.main \in StartupShutdownPath
        /\ cmds = IF pc.main = "m_done" THEN ShutdownCmds ELSE <<>>
        /\ MotorsStopped
        /\ ServosNeutral
        /\ pc.main = "q_get" => queue # <<>>

\* connect() timed out, main() took the Quit event and has ended
C32_Witness ==
    /\ QuitAtStartup
    /\ hist.timedOut
    /\ pc.main = "m_done"
    /\ cmds = ShutdownCmds
    /\ ~RunCalled

=============================================================================
